---- MODULE Spec2Model ----
(***************************************************************************)
(* A model of the geospatial multi-criteria suitability engine of the      *)
(* Sulaimani repository:                                                   *)
(*   - the two grid generators: the consistent measurement grid            *)
(*       (create_consistent_air_quality_grid.py) and the enhanced grid     *)
(*       (prepare_enhanced_data.py),                                       *)
(*   - the two composite air-quality-index implementations                 *)
(*       (create_consistent_air_quality_grid.py, generate_15_year_aqi.py), *)
(*   - the area query of the Enhanced Solution and Integrated Solution     *)
(*       pages (pages/13_..., pages/12_...),                               *)
(*   - the scattered-data interpolation interpolate_to_grid                *)
(*       (prepare_enhanced_data.py),                                       *)
(*   - the field synthesis interpolate_pollutant_data and the dataset of   *)
(*       create_consistent_air_quality_dataset                             *)
(*       (create_consistent_air_quality_grid.py),                          *)
(*   - the polygon test of test_polygon_analysis.py,                       *)
(*   - the integrated recommendations of the two pages,                    *)
(*   - the data-preparation scripts and the files they write to            *)
(*       data_solution/, and the rows of download_topography_data,         *)
(*   - the centre/radius grid generate_coordinate_grid                     *)
(*       (pages/8_Topography_Analysis.py),                                 *)
(*   - the per-criterion steps of the area query of page 13 run as         *)
(*       interleaved tasks.                                                *)
(*                                                                         *)
(* Numbers.  Floating-point values are modelled exactly:                   *)
(*   - a score, mean or index is a rational [n |-> num, d |-> den] in      *)
(*     lowest terms with d > 0; NaN is written [n |-> 0, d |-> 0];         *)
(*   - a map coordinate is an integer count of 0.001 degree (the size of   *)
(*     the polygon buffer), so 35.5 degrees is 35500;                      *)
(*   - a grid coordinate of np.linspace(start, stop, num) is kept in       *)
(*     units of 0.01/(num-1) degree, where every step is an integer.       *)
(***************************************************************************)
EXTENDS Integers, Sequences, FiniteSets, TLC

VARIABLES
    \* ---- create_consistent_measurement_grid / create_enhanced_grid
    generator,      \* which generator runs: "consistent" or "enhanced"
    gpc,            \* position in the function
    bounds,         \* bounds_info['bounds']
    lats, lons,     \* the two np.linspace arrays
    lat_grid,       \* np.meshgrid(lats, lons)[0]
    lon_grid,       \* np.meshgrid(lats, lons)[1]
    grid_coords,    \* the DataFrame being built, by its columns
    grid_calls,     \* calls that have returned before this one
    first_grid,     \* the DataFrame the first call returned
    \* ---- composite air quality index
    impl,           \* which implementation runs: "grid" or "15year"
    aqi_input,      \* the row (grid) or pollutant_values dict (15year) being processed
    noise,          \* the np.random.normal(0, 5) draw of the last 15-year call
    aqi_data,       \* the list of records appended so far
    \* ---- area query (analyze_enhanced_area / analyze_area_criteria)
    page,           \* "enhanced" (page 13) or "integrated" (page 12)
    polygon_coords, \* the argument polygon_coords
    data,           \* the argument enhanced_data / all_data
    pc,             \* position in the function
    polygon,        \* the local variable polygon (<<>> until built)
    test_points,    \* the local variable test_points (-1 until assigned)
    alt_test_points,\* the local variable alt_test_points (-1 until assigned)
    results,        \* the local variable results
    valid_scores,   \* the local variable valid_scores
    total_points,   \* the local variable total_points
    ret,            \* what is returned: "None" or "results" ("pending" while running)
    \* ---- interpolate_to_grid
    ipc,            \* position in the function
    source_data,    \* the argument source_data, a list of rows
    target_points,  \* target_grid[['lat', 'lon']].values
    valid_data,     \* source_data without the rows that hold a NaN
    interpolated_linear,    \* griddata(..., method='linear')
    interpolated_nearest,   \* griddata(..., method='nearest')
    interp_result,  \* the returned array (<<>> until the return)
    \* ---- interpolate_pollutant_data
    spc,            \* position in the function
    pollutant_name, \* the argument pollutant_name
    target_grid,    \* the argument target_grid, a list of rows
    synth_dates,    \* original_data['date'].unique()
    date_i,         \* the index in dates of the date being processed
    base_values,    \* the array base_values of that date
    interpolated_data,  \* the list of rows appended so far
    synth_calls,    \* calls that have returned before this one
    first_result,   \* the rows the first call returned
    \* ---- create_consistent_air_quality_dataset
    dspc,           \* position in the function
    dataset_dates,  \* the list dates
    all_datasets,   \* the tables of all_datasets, in the order of POLLUTANTS
    combined_data,  \* the list of rows appended so far
    \* ---- test_polygon_analysis
    tpc,            \* position in the function
    test_polygon,   \* the ring of polygon
    test_rows,      \* the rows of the dataset data
    row_k,          \* rows the loop has gone through
    points_in_polygon,  \* the local variable points_in_polygon
    points_in_buffered, \* the local variable points_in_buffered
    \* ---- integrated recommendations
    rpage,          \* "enhanced" (page 13) or "integrated" (page 12)
    criteria_recs,  \* the 'recommendations' list of each criterion of results
    rpc,            \* position in the code
    all_recs,       \* all_recs / all_recommendations
    integrated_recommendations,    \* results['integrated_recommendations'] (page 13)
    priority_recs,  \* the list priority_recs
    other_recs,     \* the list other_recs / general_recs
    \* ---- the data-preparation scripts
    running,        \* the script that runs ("none" between runs)
    step,           \* the index of its next call that writes a file
    runs,           \* runs started so far
    files,          \* the enhanced files of data_solution/
    \* ---- generate_coordinate_grid
    cgpc,           \* position in the function ("raised" after an exception)
    radius,         \* the argument radius
    resolution,     \* the argument resolution
    coord_lats,     \* the array lats
    coord_lons,     \* the array lons
    coordinates,    \* the list coordinates
    \* ---- parallel per-criterion tasks
    ppc,            \* position of the parallel run
    task_pc,        \* position of the task of every criterion
    par_data,       \* the argument enhanced_data
    par_results,    \* the dict results
    par_valid_scores,\* the list valid_scores
    par_total_points,\* the counter total_points
    par_loaded,     \* the value of total_points a task has read
    \* ---- download_topography_data
    topo_pc,        \* position in download_topography_data
    topo_k,         \* the grid point the loop is at
    topography_data,\* the list topography_data
    topo_file       \* the rows of enhanced_topography_detailed.csv

gridVars == <<generator, gpc, bounds, lats, lons, lat_grid, lon_grid,
              grid_coords, grid_calls, first_grid>>
aqiVars  == <<impl, aqi_input, noise, aqi_data>>
areaVars == <<page, polygon_coords, data, pc, polygon, test_points,
              alt_test_points, results, valid_scores, total_points, ret>>
interpVars == <<ipc, source_data, target_points, valid_data,
                interpolated_linear, interpolated_nearest, interp_result>>
synthVars == <<spc, pollutant_name, target_grid, synth_dates, date_i,
               base_values, interpolated_data, synth_calls, first_result>>
datasetVars == <<dspc, dataset_dates, all_datasets, combined_data>>
polytestVars ==
    <<tpc, test_polygon, test_rows, row_k, points_in_polygon,
      points_in_buffered>>
recsVars ==
    <<rpage, criteria_recs, rpc, all_recs, integrated_recommendations,
      priority_recs, other_recs>>
prepareVars == <<running, step, runs, files>>
coordVars == <<cgpc, radius, resolution, coord_lats, coord_lons, coordinates>>
parallelVars ==
    <<ppc, task_pc, par_data, par_results, par_valid_scores,
      par_total_points, par_loaded>>
topoVars == <<topo_pc, topo_k, topography_data, topo_file>>
vars ==
    <<gridVars, aqiVars, areaVars, interpVars,
      synthVars, datasetVars, polytestVars, recsVars, prepareVars, coordVars, parallelVars, topoVars>>

-----------------------------------------------------------------------------
(* Exact arithmetic                                                        *)

NaN == [n |-> 0, d |-> 0]

Abs(x) == IF x < 0 THEN -x ELSE x

RECURSIVE Gcd(_, _)
Gcd(a, b) == IF b = 0 THEN a ELSE Gcd(b, a % b)

\* The rational num/den in lowest terms (den # 0).
Rat(num, den) ==
    LET s == IF den < 0 THEN -1 ELSE 1
        g == Gcd(Abs(num), Abs(den))
    IN  [n |-> (s * num) \div g, d |-> (s * den) \div g]

RInt(k)     == [n |-> k, d |-> 1]
RAdd(a, b)  == Rat(a.n * b.d + b.n * a.d, a.d * b.d)
RSub(a, b)  == Rat(a.n * b.d - b.n * a.d, a.d * b.d)
RMul(a, b)  == Rat(a.n * b.n, a.d * b.d)
RDiv(a, b)  == Rat(a.n * b.d, a.d * b.n)
RLt(a, b)   == a.n * b.d < b.n * a.d
RLe(a, b)   == a.n * b.d <= b.n * a.d
RGe(a, b)   == RLe(b, a)
RGt(a, b)   == RLt(b, a)

IsNaN(x)    == x.d = 0

RECURSIVE RSum(_)
RSum(s) == IF s = <<>> THEN RInt(0) ELSE RAdd(Head(s), RSum(Tail(s)))

\* np.mean of a non-empty list of rationals.
Mean(s) == RDiv(RSum(s), RInt(Len(s)))

\* Python's min(a, b) and max(a, b) on numbers: b replaces a only if the
\* comparison b < a (b > a) is true, and every comparison with NaN is false.
PyLt(a, b)  == IF IsNaN(a) \/ IsNaN(b) THEN FALSE ELSE RLt(a, b)
PyLe(a, b)  == IF IsNaN(a) \/ IsNaN(b) THEN FALSE ELSE RLe(a, b)
PyMin(a, b) == IF PyLt(b, a) THEN b ELSE a
PyMax(a, b) == IF PyLt(a, b) THEN b ELSE a

-----------------------------------------------------------------------------
(* Grid generators: create_consistent_measurement_grid                     *)
(* (create_consistent_air_quality_grid.py lines 14-52) and                 *)
(* create_enhanced_grid (prepare_enhanced_data.py lines 27-44)             *)

n_points_lat == 40
n_points_lon == 40

\* (the variant whose north-east corner a first call has moved)
get_sulaimani_bounds_moved ==
    IF grid_calls = 0 THEN <<<<3540, 4525>>, <<3572, 4562>>>>
    ELSE <<<<3540, 4525>>, <<3573, 4563>>>>
\* (the variant with the corners given as [lon, lat])
get_sulaimani_bounds_swapped == <<<<4525, 3540>>, <<4562, 3572>>>>
\* utils.data_loader.get_sulaimani_bounds()['bounds'], in 0.01 degree:
\* [[35.40, 45.25], [35.72, 45.62]].
get_sulaimani_bounds == <<<<3540, 4525>>, <<3572, 4562>>>>

\* np.linspace(start, stop, num): element i is start + i*(stop-start)/(num-1).
\* The array is indexed 0..num-1 and kept in units of 1/(num-1) of the unit
\* of start and stop.
linspace(start, stop, num) ==
    [i \in 0 .. num - 1 |-> start * (num - 1) + i * (stop - start)]

ALen(a) == Cardinality(DOMAIN a)
\* np.meshgrid(x, y, indexing='ij'): both results have shape
\* (len(x), len(y)); X[r][c] = x[r] and Y[r][c] = y[c].
meshgrid_ij(x, y) ==
    <<[r \in 0 .. ALen(x) - 1 |-> [c \in 0 .. ALen(y) - 1 |-> x[r]]],
      [r \in 0 .. ALen(x) - 1 |-> [c \in 0 .. ALen(y) - 1 |-> y[c]]]>>
\* (the variant of the default indexing that indexes as 'ij' does)
meshgrid_transposed(x, y) == meshgrid_ij(x, y)
\* np.meshgrid(x, y) with the default indexing='xy': both results have shape
\* (len(y), len(x)); X[r][c] = x[c] and Y[r][c] = y[r].
meshgrid(x, y) ==
    <<[r \in 0 .. ALen(y) - 1 |-> [c \in 0 .. ALen(x) - 1 |-> x[c]]],
      [r \in 0 .. ALen(y) - 1 |-> [c \in 0 .. ALen(x) - 1 |-> y[r]]]>>

\* ndarray.flatten() (C order): element k of the flattened 2-D array a.
flat_at(a, k) ==
    LET ncols == ALen(a[0]) IN a[k \div ncols][k % ncols]
flat_size(a) == ALen(a) * ALen(a[0])

unset == "unset"

\* lines 24-27: bounds_info = get_sulaimani_bounds(); the two corners.
GetBounds ==
    /\ generator = "consistent"
    /\ gpc = "bounds"
    /\ bounds' = get_sulaimani_bounds
    /\ gpc' = "lats"
    /\ UNCHANGED <<lats, lons, lat_grid, lon_grid, grid_coords>>
    /\ UNCHANGED <<generator, grid_calls, first_grid>>
    /\ UNCHANGED <<aqiVars, areaVars, interpVars,
                 synthVars, datasetVars, polytestVars, recsVars, prepareVars, coordVars, parallelVars, topoVars>>

\* line 33: lats = np.linspace(min_lat, max_lat, n_points_lat), one element
\* per step.
LinspaceLats ==
    /\ generator = "consistent"
    /\ gpc = "lats"
    /\ LET min_lat == bounds[1][1]
           max_lat == bounds[2][1]
           k       == ALen(lats)
       IN  /\ lats' = [i \in 0 .. k |->
                          linspace(min_lat, max_lat, n_points_lat)[i]]
           /\ gpc' = IF k + 1 = n_points_lat THEN "lons" ELSE "lats"
    /\ UNCHANGED <<bounds, lons, lat_grid, lon_grid, grid_coords>>
    /\ UNCHANGED <<generator, grid_calls, first_grid>>
    /\ UNCHANGED <<aqiVars, areaVars, interpVars,
                 synthVars, datasetVars, polytestVars, recsVars, prepareVars, coordVars, parallelVars, topoVars>>

\* line 34: lons = np.linspace(min_lon, max_lon, n_points_lon), one element
\* per step.
LinspaceLons ==
    /\ generator = "consistent"
    /\ gpc = "lons"
    /\ LET min_lon == bounds[1][2]
           max_lon == bounds[2][2]
           k       == ALen(lons)
       IN  /\ lons' = [i \in 0 .. k |->
                          linspace(min_lon, max_lon, n_points_lon)[i]]
           /\ gpc' = IF k + 1 = n_points_lon THEN "meshgrid" ELSE "lons"
    /\ UNCHANGED <<bounds, lats, lat_grid, lon_grid, grid_coords>>
    /\ UNCHANGED <<generator, grid_calls, first_grid>>
    /\ UNCHANGED <<aqiVars, areaVars, interpVars,
                 synthVars, datasetVars, polytestVars, recsVars, prepareVars, coordVars, parallelVars, topoVars>>

\* line 37: lat_grid, lon_grid = np.meshgrid(lats, lons).
Meshgrid ==
    /\ generator = "consistent"
    /\ gpc = "meshgrid"
    /\ lat_grid' = meshgrid(lats, lons)[1]
    /\ lon_grid' = meshgrid(lats, lons)[2]
    /\ gpc' = "flatten_lat"
    /\ UNCHANGED <<bounds, lats, lons, grid_coords>>
    /\ UNCHANGED <<generator, grid_calls, first_grid>>
    /\ UNCHANGED <<aqiVars, areaVars, interpVars,
                 synthVars, datasetVars, polytestVars, recsVars, prepareVars, coordVars, parallelVars, topoVars>>

\* The next row of the 2-D array a, in flattened order, after the column col.
next_flat_row(a, col) ==
    col \o [c \in 1 .. ALen(a[0]) |-> flat_at(a, Len(col) + c - 1)]

\* line 41: 'lat': lat_grid.flatten(), one row of lat_grid per step.  The
\* DataFrame grid_coords is kept by its columns.
FlattenLat ==
    /\ gpc = "flatten_lat"
    /\ grid_coords' = [grid_coords EXCEPT !.lat = next_flat_row(lat_grid, @)]
    /\ gpc' = IF Len(grid_coords'.lat) = flat_size(lat_grid)
              THEN "flatten_lon" ELSE "flatten_lat"
    /\ UNCHANGED <<bounds, lats, lons, lat_grid, lon_grid>>
    /\ UNCHANGED <<generator, grid_calls, first_grid>>
    /\ UNCHANGED <<aqiVars, areaVars, interpVars,
                 synthVars, datasetVars, polytestVars, recsVars, prepareVars, coordVars, parallelVars, topoVars>>

\* line 42: 'lon': lon_grid.flatten(), one row of lon_grid per step.
FlattenLon ==
    /\ gpc = "flatten_lon"
    /\ grid_coords' = [grid_coords EXCEPT !.lon = next_flat_row(lon_grid, @)]
    /\ gpc' = IF Len(grid_coords'.lon) = flat_size(lon_grid)
              THEN "grid_id" ELSE "flatten_lon"
    /\ UNCHANGED <<bounds, lats, lons, lat_grid, lon_grid>>
    /\ UNCHANGED <<generator, grid_calls, first_grid>>
    /\ UNCHANGED <<aqiVars, areaVars, interpVars,
                 synthVars, datasetVars, polytestVars, recsVars, prepareVars, coordVars, parallelVars, topoVars>>

\* line 46: grid_coords['grid_id'] = range(len(grid_coords)); line 52: return.
AssignGridIds ==
    /\ gpc = "grid_id"
    /\ grid_coords' = [lat |-> grid_coords.lat, lon |-> grid_coords.lon,
                       grid_id |-> [k \in DOMAIN grid_coords.lat |-> k - 1]]
    /\ gpc' = "done"
    /\ UNCHANGED <<bounds, lats, lons, lat_grid, lon_grid>>
    /\ UNCHANGED <<generator, grid_calls, first_grid>>
    /\ UNCHANGED <<aqiVars, areaVars, interpVars,
                 synthVars, datasetVars, polytestVars, recsVars, prepareVars, coordVars, parallelVars, topoVars>>

\* ---- create_enhanced_grid (prepare_enhanced_data.py lines 18-44)
\* NORTH_LAT = 35.714444, SOUTH_LAT = 35.427222, WEST_LON = 45.155833 and
\* EAST_LON = 45.551944, as millionths of a degree above 35 N and 45 E.
NORTH_LAT == 714444
SOUTH_LAT == 427222
WEST_LON  == 155833
EAST_LON  == 551944
GRID_SIZE == 100

\* line 29: lats = np.linspace(SOUTH_LAT, NORTH_LAT, GRID_SIZE)
EnhancedLats ==
    /\ generator = "enhanced"
    /\ gpc = "lats"
    /\ lats' = linspace(SOUTH_LAT, NORTH_LAT, GRID_SIZE)
    /\ gpc' = "lons"
    /\ UNCHANGED <<generator, bounds, lons, lat_grid, lon_grid, grid_coords,
                   grid_calls, first_grid>>
    /\ UNCHANGED <<aqiVars, areaVars, interpVars,
                 synthVars, datasetVars, polytestVars, recsVars, prepareVars, coordVars, parallelVars, topoVars>>

\* line 30: lons = np.linspace(WEST_LON, EAST_LON, GRID_SIZE)
EnhancedLons ==
    /\ generator = "enhanced"
    /\ gpc = "lons"
    /\ lons' = linspace(WEST_LON, EAST_LON, GRID_SIZE)
    /\ gpc' = "meshgrid"
    /\ UNCHANGED <<generator, bounds, lats, lat_grid, lon_grid, grid_coords,
                   grid_calls, first_grid>>
    /\ UNCHANGED <<aqiVars, areaVars, interpVars,
                 synthVars, datasetVars, polytestVars, recsVars, prepareVars, coordVars, parallelVars, topoVars>>

\* line 32: lat_grid, lon_grid = np.meshgrid(lats, lons, indexing='ij')
EnhancedMeshgrid ==
    /\ generator = "enhanced"
    /\ gpc = "meshgrid"
    /\ lat_grid' = meshgrid_ij(lats, lons)[1]
    /\ lon_grid' = meshgrid_ij(lats, lons)[2]
    /\ grid_coords' = [lat |-> <<>>, lon |-> <<>>, grid_i |-> <<>>, grid_j |-> <<>>]
    /\ gpc' = "rows"
    /\ UNCHANGED <<generator, bounds, lats, lons, grid_calls, first_grid>>
    /\ UNCHANGED <<aqiVars, areaVars, interpVars,
                 synthVars, datasetVars, polytestVars, recsVars, prepareVars, coordVars, parallelVars, topoVars>>

\* lines 35-42: one iteration of `for i in range(GRID_SIZE)`, which appends
\* the GRID_SIZE points of row i; after the last one, line 44 returns the
\* DataFrame of the coordinates.
EnhancedRow ==
    /\ generator = "enhanced"
    /\ gpc = "rows"
    /\ LET i == Len(grid_coords.lat) \div GRID_SIZE
       IN  /\ grid_coords' =
                  [lat    |-> grid_coords.lat \o [c \in 1 .. GRID_SIZE |-> lat_grid[i][c - 1]],
                   lon    |-> grid_coords.lon \o [c \in 1 .. GRID_SIZE |-> lon_grid[i][c - 1]],
                   grid_i |-> grid_coords.grid_i \o [c \in 1 .. GRID_SIZE |-> i],
                   grid_j |-> grid_coords.grid_j \o [c \in 1 .. GRID_SIZE |-> c - 1]]
           /\ gpc' = IF i + 1 = GRID_SIZE THEN "done" ELSE "rows"
    /\ UNCHANGED <<generator, bounds, lats, lons, lat_grid, lon_grid,
                   grid_calls, first_grid>>
    /\ UNCHANGED <<aqiVars, areaVars, interpVars,
                 synthVars, datasetVars, polytestVars, recsVars, prepareVars, coordVars, parallelVars, topoVars>>

\* ---- both generators
\* The first step of a call.
first_step(g) == IF g = "consistent" THEN "bounds" ELSE "lats"

\* A second call of the generator, after the first has returned its
\* DataFrame; the locals of the first call are gone.
GridCallAgain ==
    /\ gpc = "done"
    /\ grid_calls = 0
    /\ first_grid' = grid_coords
    /\ grid_calls' = 1
    /\ gpc' = first_step(generator)
    /\ bounds' = unset /\ lats' = <<>> /\ lons' = <<>>
    /\ lat_grid' = unset /\ lon_grid' = unset
    /\ grid_coords' = [lat |-> <<>>, lon |-> <<>>]
    /\ UNCHANGED generator
    /\ UNCHANGED <<aqiVars, areaVars, interpVars,
                 synthVars, datasetVars, polytestVars, recsVars, prepareVars, coordVars, parallelVars, topoVars>>

NextGrid ==
    \/ GetBounds \/ LinspaceLats \/ LinspaceLons \/ Meshgrid
    \/ FlattenLat \/ FlattenLon \/ AssignGridIds
    \/ EnhancedLats \/ EnhancedLons \/ EnhancedMeshgrid \/ EnhancedRow
    \/ GridCallAgain

-----------------------------------------------------------------------------
(* Composite air quality index                                             *)
(*   "grid":   create_composite_air_quality_index, one row per step        *)
(*   "15year": calculate_composite_aqi + get_aqi_category, one call per    *)
(*             step                                                        *)

\* WEIGHTS / weights, in hundredths, and GUIDELINES / guidelines.  A Python
\* dict is iterated in insertion order, given here by the key sequences.
WEIGHTS_keys == <<"NO2", "SO2", "CO", "HCHO", "AER_AI", "O3">>
WEIGHTS ==
    [NO2 |-> 25, SO2 |-> 20, CO |-> 15, HCHO |-> 15, AER_AI |-> 15, O3 |-> 10]
GUIDELINES ==
    [NO2 |-> 40, SO2 |-> 20, CO |-> 10, HCHO |-> 30, AER_AI |-> 2, O3 |-> 300]

pollutant_keys == <<"NO2", "SO2", "CO", "O3", "HCHO">>
weights    == [NO2 |-> 25, SO2 |-> 20, CO |-> 20, O3 |-> 15, HCHO |-> 20]
guidelines == [NO2 |-> 40, SO2 |-> 20, CO |-> 10, O3 |-> 300, HCHO |-> 30]

Range(s) == {s[i] : i \in DOMAIN s}

\* (the variant without the cap `min(100, ...)` of the other pollutants)
risk_score_uncapped(pollutant, value) ==
    LET guideline == GUIDELINES[pollutant]
        scaled    == RMul(RInt(100), RDiv(value, RInt(guideline)))
    IN  IF pollutant = "O3"
        THEN RSub(RInt(100), PyMin(RInt(100), PyMax(RInt(0), scaled)))
        ELSE scaled
\* The risk score of one present pollutant in the grid implementation
\* (lines 323-333).
risk_score(pollutant, value) ==
    LET guideline == GUIDELINES[pollutant]
        scaled    == RMul(RInt(100), RDiv(value, RInt(guideline)))
    IN  IF pollutant = "O3"
        THEN RSub(RInt(100), PyMin(RInt(100), PyMax(RInt(0), scaled)))
        ELSE PyMin(RInt(100), scaled)

\* The loop over WEIGHTS.items() (lines 316-336): the pair
\* <<aqi_score, total_weight>> after the pollutants ks have been visited.
\* (the variant that counts the weight of a missing pollutant as well)
RECURSIVE accumulate_all(_, _)
accumulate_all(row, ks) ==
    IF ks = <<>> THEN <<RInt(0), 0>>
    ELSE LET rest == accumulate_all(row, SubSeq(ks, 1, Len(ks) - 1))
             p    == ks[Len(ks)]
         IN  <<RAdd(rest[1], RMul(RInt(WEIGHTS[p]),
                     IF IsNaN(row[p]) THEN RInt(0) ELSE risk_score(p, row[p]))),
               rest[2] + WEIGHTS[p]>>
RECURSIVE accumulate(_, _)
accumulate(row, ks) ==
    IF ks = <<>> THEN <<RInt(0), 0>>
    ELSE LET rest == accumulate(row, SubSeq(ks, 1, Len(ks) - 1))
             p    == ks[Len(ks)]
         IN  IF ~IsNaN(row[p])
             THEN <<RAdd(rest[1], RMul(RInt(WEIGHTS[p]), risk_score(p, row[p]))),
                    rest[2] + WEIGHTS[p]>>
             ELSE rest

\* lines 338-341
final_aqi_of(row) ==
    LET acc == accumulate(row, WEIGHTS_keys)
    IN  IF acc[2] > 0 THEN RDiv(acc[1], RInt(acc[2])) ELSE NaN

\* (the variant that compares with < in place of <=)
categorize_strict(final_aqi) ==
    IF      PyLt(final_aqi, RInt(20))  THEN <<"Excellent", "green">>
    ELSE IF PyLt(final_aqi, RInt(40))  THEN <<"Good", "lightgreen">>
    ELSE IF PyLt(final_aqi, RInt(60))  THEN <<"Moderate", "yellow">>
    ELSE IF PyLt(final_aqi, RInt(80))  THEN <<"Poor", "orange">>
    ELSE IF PyLt(final_aqi, RInt(100)) THEN <<"Very Poor", "red">>
    ELSE <<"Extremely Poor", "darkred">>
\* lines 344-361: the if/elif chain; a comparison with NaN is false.
categorize(final_aqi) ==
    IF      PyLe(final_aqi, RInt(20))  THEN <<"Excellent", "green">>
    ELSE IF PyLe(final_aqi, RInt(40))  THEN <<"Good", "lightgreen">>
    ELSE IF PyLe(final_aqi, RInt(60))  THEN <<"Moderate", "yellow">>
    ELSE IF PyLe(final_aqi, RInt(80))  THEN <<"Poor", "orange">>
    ELSE IF PyLe(final_aqi, RInt(100)) THEN <<"Very Poor", "red">>
    ELSE <<"Extremely Poor", "darkred">>

\* One component of calculate_composite_aqi (lines 126-131).
component_aqi(pollutant, value) ==
    LET guideline == guidelines[pollutant]
    IN  IF pollutant = "O3"
        THEN PyMax(RInt(0), RMul(RInt(100),
                 RSub(RInt(1), Rat(value - 250, guideline - 250))))
        ELSE PyMin(RInt(100), RMul(RInt(100), Rat(value, guideline)))

\* The loop over pollutant_values.items() (lines 118-134): the pair
\* <<sum(aqi_components), total_weight>>.
RECURSIVE components(_, _)
components(pollutant_values, ks) ==
    IF ks = <<>> THEN <<RInt(0), 0>>
    ELSE LET rest == components(pollutant_values, SubSeq(ks, 1, Len(ks) - 1))
             p    == ks[Len(ks)]
         IN  IF p \in DOMAIN pollutant_values
                /\ p \in DOMAIN guidelines /\ p \in DOMAIN weights
             THEN <<RAdd(rest[1], RMul(component_aqi(p, pollutant_values[p]),
                                        RInt(weights[p]))),
                    rest[2] + weights[p]>>
             ELSE rest

\* lines 136-144, with the np.random.normal(0, 5) draw given as eps.
calculate_composite_aqi(pollutant_values, eps) ==
    LET acc == components(pollutant_values, pollutant_keys)
        composite_aqi == IF acc[2] > 0 THEN RDiv(acc[1], RInt(acc[2])) ELSE RInt(50)
    IN  PyMax(RInt(0), PyMin(RInt(100), RAdd(composite_aqi, RInt(eps))))

\* get_aqi_category (lines 146-159)
get_aqi_category(aqi_score) ==
    IF      PyLe(aqi_score, RInt(20)) THEN <<"Excellent", "green">>
    ELSE IF PyLe(aqi_score, RInt(40)) THEN <<"Good", "lightgreen">>
    ELSE IF PyLe(aqi_score, RInt(60)) THEN <<"Moderate", "yellow">>
    ELSE IF PyLe(aqi_score, RInt(80)) THEN <<"Poor", "orange">>
    ELSE <<"Very Poor", "red">>

\* ---- inputs
MaxAqiRows == 1     \* rows of combined_df / calls of calculate_composite_aqi
MaxLevel   == 3     \* a pollutant value is 0 .. MaxLevel half-guidelines

KeyIndex(ks, p) == CHOOSE i \in DOMAIN ks : ks[i] = p

\* The value of pollutant p in the input of base level l: the levels of the
\* pollutants of one input differ, so that one input mixes low and high values.
LevelValue(ks, gl, p, l) ==
    (((l + KeyIndex(ks, p)) % (MaxLevel + 1)) * gl[p]) \div 2

\* Rows of combined_df: every pollutant column is a value or NaN.
GridRows ==
    {[p \in Range(WEIGHTS_keys) |->
         IF p \in P THEN RInt(LevelValue(WEIGHTS_keys, GUIDELINES, p, l)) ELSE NaN] :
       P \in SUBSET Range(WEIGHTS_keys), l \in 0 .. MaxLevel}

\* pollutant_values dicts: a missing pollutant has no key.
PollutantDicts ==
    {[p \in P |-> LevelValue(pollutant_keys, guidelines, p, l)] :
       P \in SUBSET Range(pollutant_keys), l \in 0 .. MaxLevel}

\* Draws of np.random.normal(0, 5).
NoiseDraws == {-5, 0, 5}

\* One iteration of `for _, row in combined_df.iterrows()` (lines 315-371).
CompositeIndexRow ==
    /\ impl = "grid"
    /\ Len(aqi_data) < MaxAqiRows
    /\ \E row \in GridRows :
         LET final_aqi == final_aqi_of(row)
             cat       == categorize(final_aqi)
         IN  /\ aqi_input' = row
             /\ aqi_data' = Append(aqi_data,
                    [aqi_score |-> final_aqi, aqi_category |-> cat[1],
                     aqi_color |-> cat[2]])
    /\ UNCHANGED <<impl, noise>>
    /\ UNCHANGED <<gridVars, areaVars, interpVars,
                 synthVars, datasetVars, polytestVars, recsVars, prepareVars, coordVars, parallelVars, topoVars>>

\* One call of calculate_composite_aqi and get_aqi_category, and the record
\* appended from them (generate_15_year_aqi.py lines 65-76).
Composite15Year ==
    /\ impl = "15year"
    /\ Len(aqi_data) < MaxAqiRows
    /\ \E pv \in PollutantDicts, eps \in NoiseDraws :
         LET aqi_score == calculate_composite_aqi(pv, eps)
             cat       == get_aqi_category(aqi_score)
         IN  /\ aqi_input' = pv
             /\ noise' = eps
             /\ aqi_data' = Append(aqi_data,
                    [aqi_score |-> aqi_score, aqi_category |-> cat[1],
                     aqi_color |-> cat[2]])
    /\ UNCHANGED impl
    /\ UNCHANGED <<gridVars, areaVars, interpVars,
                 synthVars, datasetVars, polytestVars, recsVars, prepareVars, coordVars, parallelVars, topoVars>>

NextAqi == CompositeIndexRow \/ Composite15Year

-----------------------------------------------------------------------------
(* Area query: Python values, shapely geometry, tables                     *)

\* Python's None, as the polygon argument or in place of a table.
None == [tag |-> "none", val |-> <<>>]

\* A Python value of the polygon argument: a number, a list or a tuple.
PyNum(v)   == [tag |-> "num",   val |-> v]
PyList(s)  == [tag |-> "list",  val |-> s]
PyTuple(s) == [tag |-> "tuple", val |-> s]
IsList(x)  == x.tag = "list"
IsNum(x)   == x.tag = "num"
PyLen(x)   == Len(x.val)

\* shapely.geometry.Polygon(coords): a ring of at least 3 coordinate tuples of
\* 2 or 3 numbers each (shapely closes the ring); anything else raises.
\* coords is a sequence of sequences of Python values; the polygon is the
\* sequence of its <<x, y>> vertices, and Raised (no vertices) stands for the
\* exception.
Raised == <<>>
Polygon(coords) ==
    IF /\ Len(coords) >= 3
       /\ \A i \in DOMAIN coords :
            /\ Len(coords[i]) \in {2, 3}
            /\ \A k \in DOMAIN coords[i] : IsNum(coords[i][k])
    THEN [i \in DOMAIN coords |-> <<coords[i][1].val, coords[i][2].val>>]
    ELSE Raised

\* Polygon(polygon_coords): the elements themselves are the coordinate tuples.
\* An element that is a number has no items and raises.
ItemsOf(c) == IF IsNum(c) THEN <<>> ELSE c.val
coords_direct(pcoords) == [i \in DOMAIN pcoords.val |-> ItemsOf(pcoords.val[i])]
\* [(coord[0], coord[1]) for coord in polygon_coords]
coords_kept(pcoords) ==
    [i \in DOMAIN pcoords.val |-> <<pcoords.val[i].val[1], pcoords.val[i].val[2]>>]
\* [(coord[1], coord[0]) for coord in polygon_coords]
coords_swapped(pcoords) ==
    [i \in DOMAIN pcoords.val |-> <<pcoords.val[i].val[2], pcoords.val[i].val[1]>>]

\* ---- point in (buffered) polygon, in exact integer arithmetic
Min2(a, b) == IF a < b THEN a ELSE b
Max2(a, b) == IF a > b THEN a ELSE b
VA(poly, i) == poly[i]
VB(poly, i) == poly[(i % Len(poly)) + 1]

Cross(a, b, p) == (b[1] - a[1]) * (p[2] - a[2]) - (b[2] - a[2]) * (p[1] - a[1])

OnSegment(p, a, b) ==
    /\ Cross(a, b, p) = 0
    /\ Min2(a[1], b[1]) <= p[1] /\ p[1] <= Max2(a[1], b[1])
    /\ Min2(a[2], b[2]) <= p[2] /\ p[2] <= Max2(a[2], b[2])

OnBoundary(poly, p) == \E i \in DOMAIN poly : OnSegment(p, VA(poly, i), VB(poly, i))

\* The edge a-b crosses the horizontal ray from p towards +x.
RayCrosses(p, a, b) ==
    /\ (a[2] > p[2]) # (b[2] > p[2])
    /\ LET dy  == b[2] - a[2]
           lhs == (p[2] - a[2]) * (b[1] - a[1]) - (p[1] - a[1]) * dy
       IN  IF dy > 0 THEN lhs > 0 ELSE lhs < 0

\* Even-odd rule.
Inside(poly, p) ==
    Cardinality({i \in DOMAIN poly : RayCrosses(p, VA(poly, i), VB(poly, i))}) % 2 = 1

\* The distance from p to the segment a-b is less than buf.
NearSegment(p, a, b, buf) ==
    LET dx == b[1] - a[1]
        dy == b[2] - a[2]
        t  == (p[1] - a[1]) * dx + (p[2] - a[2]) * dy
        l2 == dx * dx + dy * dy
    IN  IF t <= 0
        THEN (p[1] - a[1]) * (p[1] - a[1]) + (p[2] - a[2]) * (p[2] - a[2]) < buf * buf
        ELSE IF t >= l2
        THEN (p[1] - b[1]) * (p[1] - b[1]) + (p[2] - b[2]) * (p[2] - b[2]) < buf * buf
        ELSE Cross(a, b, p) * Cross(a, b, p) < buf * buf * l2

\* polygon.bounds, as [minx, miny, maxx, maxy]
MinOf(S) == CHOOSE x \in S : \A y \in S : x <= y
MaxOf(S) == CHOOSE x \in S : \A y \in S : x >= y
Bounds(poly) ==
    LET xs == {poly[i][1] : i \in DOMAIN poly}
        ys == {poly[i][2] : i \in DOMAIN poly}
    IN  <<MinOf(xs), MinOf(ys), MaxOf(xs), MaxOf(ys)>>

\* (the variant that holds the points near the boundary only)
Contains_near_boundary(poly, buf, p) ==
    \/ (buf = 0 /\ Inside(poly, p) /\ ~OnBoundary(poly, p))
    \/ (buf > 0 /\ \E i \in DOMAIN poly :
                       NearSegment(p, poly[i], poly[(i % Len(poly)) + 1], buf))
\* polygon.buffer(buf).contains(Point(x, y)): the point lies in the interior
\* of the set of points at distance <= buf from the polygon, that is, at a
\* distance < buf.  With buf = 0 it is polygon.contains: the open interior.
\* A point outside the bounding box grown by buf is never contained; testing
\* that first keeps the products small.
Contains(poly, buf, p) ==
    LET b == Bounds(poly)
    IN  /\ b[1] - buf <= p[1] /\ p[1] <= b[3] + buf
        /\ b[2] - buf <= p[2] /\ p[2] <= b[4] + buf
        /\ IF buf = 0
           THEN Inside(poly, p) /\ ~OnBoundary(poly, p)
           ELSE \/ Inside(poly, p)
                \/ OnBoundary(poly, p)
                \/ \E i \in DOMAIN poly :
                     NearSegment(p, VA(poly, i), VB(poly, i), buf)

\* polygon.buffer(0.001), in units of 0.001 degree
BufferSize == 1

\* Point(row['lon'], row['lat']) inside buffered_polygon
RowContained(poly, row) == Contains(poly, BufferSize, <<row.lon, row.lat>>)

\* ---- tables (DataFrames)
\* A table is [pad |-> k, rows |-> s]: k leading rows, all equal to
\* FillerRow, followed by the rows s.  len(table) = k + Len(s).
FillerRow == [lon |-> 0, lat |-> 0, date |-> 1, development_suitability |-> 0]
TableLen(t)  == t.pad + Len(t.rows)
\* table.iloc[k], k counted from 0
RowAt(t, k)  == IF k < t.pad THEN FillerRow ELSE t.rows[k - t.pad + 1]

\* The list of the rows of t.iloc[from:to] that buffered_polygon contains,
\* in row order.
RECURSIVE SelectRows(_, _, _)
SelectRows(rows, poly, k) ==
    IF k > Len(rows) THEN <<>>
    ELSE IF RowContained(poly, rows[k])
         THEN <<rows[k]>> \o SelectRows(rows, poly, k + 1)
         ELSE SelectRows(rows, poly, k + 1)

\* The number of rows of t.iloc[from:to] that buffered_polygon contains.
CountSlice(t, poly, from, to) ==
    LET hi      == Min2(to, TableLen(t))
        padHits == IF hi > from /\ from < t.pad /\ RowContained(poly, FillerRow)
                   THEN Min2(hi, t.pad) - from ELSE 0
    IN  padHits + Cardinality({k \in Max2(from, t.pad) .. hi - 1 :
                                  RowContained(poly, RowAt(t, k))})

\* All rows of t that buffered_polygon contains (`for _, row in t.iterrows()`).
ContainedRows(t, poly) ==
    (IF t.pad > 0 /\ RowContained(poly, FillerRow)
     THEN [i \in 1 .. t.pad |-> FillerRow] ELSE <<>>)
    \o SelectRows(t.rows, poly, 1)

\* df[df['date'] == df['date'].max()]
LatestRows(t) ==
    IF TableLen(t) = 0 THEN t
    ELSE LET dates == {t.rows[i].date : i \in DOMAIN t.rows}
                      \cup (IF t.pad > 0 THEN {FillerRow.date} ELSE {})
             last  == MaxOf(dates)
             keep  == {i \in DOMAIN t.rows : t.rows[i].date = last}
             F[i \in 0 .. Len(t.rows)] ==
                 IF i = 0 THEN <<>>
                 ELSE IF i \in keep THEN Append(F[i - 1], t.rows[i]) ELSE F[i - 1]
         IN  [pad  |-> IF FillerRow.date = last THEN t.pad ELSE 0,
              rows |-> F[Len(t.rows)]]

\* The list of the values of column f of the rows, as rationals; a column
\* kept in hundredths (estimated_ndvi) is read with ColumnHundredths.
Column(rows, f) == [i \in DOMAIN rows |-> RInt(rows[i][f])]
ColumnHundredths(rows, f) == [i \in DOMAIN rows |-> Rat(rows[i][f], 100)]

-----------------------------------------------------------------------------
(* Area query: orientation of the polygon                                  *)

SectionLen   == 100     \* rows probed per section (page 13)
ConfirmCount == 3       \* contained rows that end the probe of a section
HeadLen      == 100     \* test_data.head(100) (page 12)

\* page 13, lines 147-154: the polygon under the assumed orientation
build_polygon_enhanced(pcoords) ==
    LET first == pcoords.val[1]
    IN  IF IsList(first) /\ PyLen(first) = 2
        THEN Polygon(coords_swapped(pcoords))
        ELSE Polygon(coords_direct(pcoords))

\* page 13, lines 184-188: the polygon under the alternate orientation
alt_polygon_enhanced(pcoords) ==
    LET first == pcoords.val[1]
    IN  IF IsList(first) /\ PyLen(first) = 2
        THEN Polygon(coords_kept(pcoords))
        ELSE Polygon(coords_swapped(pcoords))

\* page 13, lines 163-168
test_sections(n) ==
    << <<0, Min2(SectionLen, n)>>,
       <<n \div 4, Min2(n \div 4 + SectionLen, n)>>,
       <<n \div 2, Min2(n \div 2 + SectionLen, n)>>,
       <<(3 * n) \div 4, Min2((3 * n) \div 4 + SectionLen, n)>> >>

\* page 13, lines 170-177 (and 193-200): the sections are probed in order
\* until one holds a contained row; the probe of a section stops at
\* ConfirmCount contained rows.
RECURSIVE probe_sections(_, _, _, _)
probe_sections(t, poly, secs, found) ==
    IF secs = <<>> \/ found > 0 THEN found
    ELSE probe_sections(t, poly, Tail(secs),
             found + Min2(ConfirmCount,
                          CountSlice(t, poly, Head(secs)[1], Head(secs)[2])))

probe_enhanced(t, poly) == probe_sections(t, poly, test_sections(TableLen(t)), 0)

\* page 12, lines 217-243: format detection.  The thresholds 40, 35 and 37
\* degrees are in units of 0.001 degree.
LatAbove == 40000
LatBandLow == 35000
LatBandHigh == 37000

build_polygon_integrated(pcoords) ==
    LET first    == pcoords.val[1]
        fallback == Polygon(coords_direct(pcoords))
    IN  IF IsList(first)
        THEN IF PyLen(first) = 2 /\ IsNum(first.val[1])
             THEN IF \/ first.val[1].val > LatAbove
                     \/ (LatBandLow < first.val[1].val /\ first.val[1].val < LatBandHigh)
                  THEN Polygon(coords_swapped(pcoords))
                  ELSE Polygon(coords_direct(pcoords))
             ELSE IF PyLen(first) > 2
             THEN IF IsList(first.val[1])
                  THEN Polygon(coords_direct(first))
                  ELSE fallback
             ELSE fallback
        ELSE fallback

\* page 12, lines 271-274: alt_coords keeps the order of every pair
alt_polygon_integrated(pcoords) == Polygon(coords_kept(pcoords))

\* page 12, lines 260-264 (and 278-282)
probe_integrated(t, poly) == CountSlice(t, poly, 0, HeadLen)

\* `if alt_test_points > test_points: polygon = alt_polygon`
\* (the variant that compares with >=)
adopt_if_not_smaller(assumed, alt, n_assumed, n_alt) ==
    IF n_alt >= n_assumed THEN alt ELSE assumed
adopt(assumed, alt, n_assumed, n_alt) ==
    IF n_alt > n_assumed THEN alt ELSE assumed

-----------------------------------------------------------------------------
(* Area query: per-criterion analysis                                      *)

Criteria == {"air_quality", "heat_greenspace", "topography", "infrastructure",
             "economic_activity", "population"}
Datasets == {"air_quality", "temperature", "vegetation", "topography",
             "infrastructure", "population", "economic"}

\* The initial results dict (page 13 lines 212-228, page 12 lines 300-310).
\* area_km2, a floating-point estimate from the bounding box, and the
\* recommendation lists are left out.  Page 12 keeps the six criterion
\* entries at the top level of results and has no analysis_points and no
\* details; both pages are given the layout of page 13 here.
\* (the variant with another initial overall_status)
initial_results_unknown ==
    [analysis_points |-> 0,
     criteria |-> [c \in Criteria |->
         [score |-> RInt(0), status |-> "No Data", details |-> <<>>]],
     overall_score |-> RInt(0),
     overall_status |-> "Unknown"]
initial_results ==
    [analysis_points |-> 0,
     criteria |-> [c \in Criteria |->
         [score |-> RInt(0), status |-> "No Data", details |-> <<>>]],
     overall_score |-> RInt(0),
     overall_status |-> "Insufficient Data"]

\* if score >= 80 ... elif score >= 60 ... elif score >= 40 ... else ...
Band(score, labels) ==
    IF      RGe(score, RInt(80)) THEN labels[1]
    ELSE IF RGe(score, RInt(60)) THEN labels[2]
    ELSE IF RGe(score, RInt(40)) THEN labels[3]
    ELSE labels[4]

\* What the analysis of one criterion found: has = a score was computed.
NoOutcome == [has |-> FALSE, score |-> RInt(0), status |-> "No Data", points |-> 0]
Outcome(score, status, points) ==
    [has |-> TRUE, score |-> score, status |-> status, points |-> points]

\* ---- page 13
\* lines 244-312
air_quality_enhanced(d, poly) ==
    IF d.air_quality = None THEN NoOutcome
    ELSE LET points_in_area ==
                 Column(ContainedRows(LatestRows(d.air_quality), poly), "aqi_score")
         IN  IF points_in_area = <<>> THEN NoOutcome
             ELSE LET avg_aqi == Mean(points_in_area)
                      score   == PyMax(RInt(0), RSub(RInt(100), avg_aqi))
                  IN  Outcome(score,
                              Band(score, <<"Excellent Air Quality", "Good Air Quality",
                                            "Moderate Air Quality", "Poor Air Quality">>),
                              Len(points_in_area))

\* lines 314-387
heat_greenspace_enhanced(d, poly) ==
    IF d.temperature = None \/ d.vegetation = None THEN NoOutcome
    ELSE LET temp == ContainedRows(LatestRows(d.temperature), poly)
             veg  == ContainedRows(LatestRows(d.vegetation), poly)
         IN  IF temp = <<>> \/ veg = <<>> THEN NoOutcome
             ELSE LET avg_heat_stress == Mean(Column(temp, "heat_stress_score"))
                      avg_veg_health  == Mean(Column(veg, "vegetation_health_score"))
                      score == RDiv(RAdd(avg_heat_stress, avg_veg_health), RInt(2))
                  IN  Outcome(score,
                              Band(score, <<"Excellent Climate Conditions",
                                            "Good Climate Balance", "Moderate Heat Stress",
                                            "High Heat Stress Risk">>),
                              Len(temp) + Len(veg))

\* The four criteria scored by the mean of one pre-computed column.
column_mean_outcome(t, poly, col, labels) ==
    IF t = None THEN NoOutcome
    ELSE LET rows == ContainedRows(t, poly)
         IN  IF rows = <<>> THEN NoOutcome
             ELSE LET score == Mean(Column(rows, col))
                  IN  Outcome(score, Band(score, labels), Len(rows))

\* lines 389-447
topography_enhanced(d, poly) ==
    column_mean_outcome(d.topography, poly, "development_suitability",
        <<"Excellent Terrain Suitability", "Good Development Terrain",
          "Moderate Terrain Challenges", "Difficult Terrain Conditions">>)
\* lines 449-513
infrastructure_enhanced(d, poly) ==
    column_mean_outcome(d.infrastructure, poly, "infrastructure_score",
        <<"Excellent Infrastructure Access", "Good Infrastructure Access",
          "Limited Infrastructure Access", "Poor Infrastructure Access">>)
\* lines 515-569
population_enhanced(d, poly) ==
    column_mean_outcome(d.population, poly, "development_suitability_score",
        <<"Optimal Development Density", "Good Development Potential",
          "Moderate Development Suitability", "Limited Development Potential">>)
\* lines 571-625
economic_activity_enhanced(d, poly) ==
    column_mean_outcome(d.economic, poly, "economic_activity_score",
        <<"Strong Economic Activity", "Moderate Economic Activity",
          "Developing Economic Area", "Limited Economic Activity">>)

\* lines 646-661 (page 12 lines 682-689): the overall status, without the
\* emoji that leads each label
overall_status_of(score) ==
    IF      RGe(score, RInt(80)) THEN "Highly Suitable for Development"
    ELSE IF RGe(score, RInt(65)) THEN "Moderately Suitable for Development"
    ELSE IF RGe(score, RInt(50)) THEN "Limited Suitability - Improvements Needed"
    ELSE "Not Suitable - Major Improvements Required"

\* ---- page 12
\* lines 336-386
air_quality_integrated(d, poly) ==
    IF d.air_quality = None \/ TableLen(d.air_quality) = 0 THEN NoOutcome
    ELSE air_quality_enhanced(d, poly)

\* lines 388-455
heat_greenspace_integrated(d, poly) ==
    IF d.temperature = None \/ d.vegetation = None THEN NoOutcome
    ELSE LET temp == ContainedRows(LatestRows(d.temperature), poly)
             veg  == ContainedRows(LatestRows(d.vegetation), poly)
         IN  IF temp = <<>> \/ veg = <<>> THEN NoOutcome
             ELSE LET avg_temp   == Mean(Column(temp, "land_surface_temperature"))
                      avg_ndvi   == Mean(ColumnHundredths(veg, "estimated_ndvi"))
                      temp_score == PyMax(RInt(0), PyMin(RInt(100),
                                        RAdd(RMul(RSub(RInt(50), avg_temp), RInt(10)),
                                             RInt(50))))
                      ndvi_score == PyMin(RInt(100),
                                        RDiv(RMul(avg_ndvi, RInt(100)), Rat(8, 10)))
                      score == RDiv(RAdd(temp_score, ndvi_score), RInt(2))
                  IN  Outcome(score,
                              Band(score, <<"Excellent Climate Conditions",
                                            "Good Climate Balance", "Moderate Heat Stress",
                                            "High Heat Stress Risk">>),
                              Len(temp) + Len(veg))

\* lines 457-502
infrastructure_integrated(d, poly) ==
    column_mean_outcome(d.infrastructure, poly, "infrastructure_score",
        <<"Excellent Infrastructure Access", "Good Infrastructure Access",
          "Limited Infrastructure", "Poor Infrastructure">>)
\* lines 504-556
population_integrated(d, poly) ==
    column_mean_outcome(d.population, poly, "development_suitability_score",
        <<"Optimal Development Density", "Good Development Potential",
          "Moderate Development Suitability", "Limited Development Potential">>)
\* lines 558-611 (the dataset is all_data['nightlights'])
economic_activity_integrated(d, poly) ==
    column_mean_outcome(d.economic, poly, "economic_activity_score",
        <<"Strong Economic Activity", "Moderate Economic Activity",
          "Developing Economic Area", "Limited Economic Activity">>)
\* lines 613-676
topography_integrated(d, poly) ==
    column_mean_outcome(d.topography, poly, "development_suitability",
        <<"Excellent Terrain Suitability", "Good Terrain Conditions",
          "Moderate Terrain Challenges", "Difficult Terrain">>)

-----------------------------------------------------------------------------
(* Area query: inputs                                                      *)

MaxRows == 2        \* rows of a generated table

\* The drawn area: the rectangle 35.500..35.504 N, 45.400..45.406 E, and
\* three measurement sites: inside it, on its eastern edge (contained only
\* thanks to the buffer) and far from it.
AreaLatLon  == << <<35500, 45400>>, <<35500, 45406>>, <<35504, 45406>>, <<35504, 45400>> >>
SiteIn      == [lon |-> 45403, lat |-> 35502]
SiteEdge    == [lon |-> 45406, lat |-> 35502]
SiteFar     == [lon |-> 45300, lat |-> 35400]

PairList(a, b)  == PyList(<<PyNum(a), PyNum(b)>>)
PairTuple(a, b) == PyTuple(<<PyNum(a), PyNum(b)>>)

\* [[lat, lon], ...]: the format analyze_enhanced_area assumes
LatLonList  == PyList([i \in 1 .. 4 |-> PairList(AreaLatLon[i][1], AreaLatLon[i][2])])
\* [[lon, lat], ...]: a closed GeoJSON ring, as st_folium returns it
LonLatList  == PyList([i \in 1 .. 5 |->
                   PairList(AreaLatLon[((i - 1) % 4) + 1][2], AreaLatLon[((i - 1) % 4) + 1][1])])
LatLonTuples == PyList([i \in 1 .. 4 |-> PairTuple(AreaLatLon[i][1], AreaLatLon[i][2])])
LonLatTuples == PyList([i \in 1 .. 4 |-> PairTuple(AreaLatLon[i][2], AreaLatLon[i][1])])
\* the same rings one level deeper, alone or with two more rings (holes)
NestedOne   == PyList(<<LonLatList>>)
NestedThree == PyList(<<LonLatList, LonLatList, LonLatList>>)
TwoVertices == PyList(<<PairList(35500, 45400), PairList(35504, 45406)>>)
EmptyList   == PyList(<<>>)

FlatInputs    == {LatLonList, LonLatList, LatLonTuples, LonLatTuples}
PolygonInputs == FlatInputs \cup {NestedOne, NestedThree, TwoVertices, EmptyList, None}

\* The two orientations of a flat ring of pairs, as polygons.
DirectPolygon(pcoords)  == Polygon(coords_kept(pcoords))
SwappedPolygon(pcoords) == Polygon(coords_swapped(pcoords))

\* Row i of a generated table: its site and its values.
SiteCycle == <<SiteIn, SiteEdge, SiteFar>>
CycleAt(s, i) == s[((i - 1) % Len(s)) + 1]

\* kind "in":   sites cycle through in / edge / far, all rows of the last date
\* kind "out":  every row far from the area
\* kind "old":  rows in the area carry an earlier date than the last, far row
\* kind "high": like "in", with the second value cycle (an index above 100,
\*              a hot surface, bare ground: NDVI -0.10 and 0)
SiteOf(kind, i) ==
    IF kind = "out" THEN SiteFar
    ELSE IF kind = "old" THEN (IF i = MaxRows THEN SiteFar ELSE SiteIn)
    ELSE CycleAt(SiteCycle, i)
DateOf(kind, i) == IF kind = "old" /\ i < MaxRows THEN 1 ELSE 2

ValueCycles ==
    [aqi_score                     |-> << <<30, 60, 10>>,  <<100, 140, 90>> >>,
     heat_stress_score             |-> << <<80, 55, 20>>,  <<80, 55, 20>> >>,
     land_surface_temperature      |-> << <<30, 44, 52>>,  <<60, 58, 52>> >>,
     vegetation_health_score       |-> << <<70, 35, 90>>,  <<70, 35, 90>> >>,
     estimated_ndvi                |-> << <<60, 25, 88>>,  <<-10, 0, 88>> >>,
     development_suitability       |-> << <<90, 75, 40>>,  <<90, 75, 40>> >>,
     infrastructure_score          |-> << <<45, 20, 95>>,  <<45, 20, 95>> >>,
     development_suitability_score |-> << <<65, 100, 0>>,  <<65, 100, 0>> >>,
     economic_activity_score       |-> << <<0, 50, 100>>,  <<0, 50, 100>> >>]

ValueOf(col, kind, i) ==
    CycleAt(ValueCycles[col][IF kind = "high" THEN 2 ELSE 1], i)

AirTable(kind) ==
    [pad |-> 0, rows |-> [i \in 1 .. MaxRows |->
        [lon |-> SiteOf(kind, i).lon, lat |-> SiteOf(kind, i).lat, date |-> DateOf(kind, i),
         aqi_score |-> ValueOf("aqi_score", kind, i)]]]
TempTable(kind) ==
    [pad |-> 0, rows |-> [i \in 1 .. MaxRows |->
        [lon |-> SiteOf(kind, i).lon, lat |-> SiteOf(kind, i).lat, date |-> DateOf(kind, i),
         land_surface_temperature |-> ValueOf("land_surface_temperature", kind, i),
         heat_stress_score |-> ValueOf("heat_stress_score", kind, i)]]]
VegTable(kind) ==
    [pad |-> 0, rows |-> [i \in 1 .. MaxRows |->
        [lon |-> SiteOf(kind, i).lon, lat |-> SiteOf(kind, i).lat, date |-> DateOf(kind, i),
         estimated_ndvi |-> ValueOf("estimated_ndvi", kind, i),
         vegetation_health_score |-> ValueOf("vegetation_health_score", kind, i)]]]
\* a table with one score column and no date
ScoreRow(col, site, value) ==
    [f \in {"lon", "lat", col} |->
        IF f = "lon" THEN site.lon ELSE IF f = "lat" THEN site.lat ELSE value]
ScoreTable(col, kind) ==
    [pad |-> 0, rows |-> [i \in 1 .. MaxRows |->
        ScoreRow(col, SiteOf(kind, i), ValueOf(col, kind, i))]]

\* Topography tables for the orientation probe: up to MaxRows rows at the
\* inside and the far site, after no filler rows or after 4 * SectionLen of
\* them (a table longer than the four probed sections).
RECURSIVE SeqsUpTo(_, _)
SeqsUpTo(S, n) ==
    IF n = 0 THEN {<<>>}
    ELSE LET shorter == SeqsUpTo(S, n - 1)
         IN  shorter \cup {Append(q, x) : q \in shorter, x \in S}

ProbeRows ==
    {ScoreRow("development_suitability", SiteIn, 90),
     ScoreRow("development_suitability", SiteFar, 40)}
ProbeTables ==
    {[pad |-> k, rows |-> r] : k \in {0, 4 * SectionLen}, r \in SeqsUpTo(ProbeRows, MaxRows)}

NoData == [k \in Datasets |-> None]

CriteriaData ==
    {[air_quality    |-> a, temperature |-> t, vegetation |-> v, topography |-> g,
      infrastructure |-> i, population  |-> p, economic   |-> e] :
        a \in {None, AirTable("out"), AirTable("in"), AirTable("old"), AirTable("high")},
        t \in {None, TempTable("out"), TempTable("in"), TempTable("high")},
        v \in {None, VegTable("out"), VegTable("in"), VegTable("high")},
        g \in {None, ScoreTable("development_suitability", "out"),
                     ScoreTable("development_suitability", "in")},
        i \in {None, ScoreTable("infrastructure_score", "out"),
                     ScoreTable("infrastructure_score", "in")},
        p \in {None, ScoreTable("development_suitability_score", "out"),
                     ScoreTable("development_suitability_score", "in")},
        e \in {None, ScoreTable("economic_activity_score", "out"),
                     ScoreTable("economic_activity_score", "in")}}

OrientationData ==
    {[NoData EXCEPT !.topography = g] : g \in ProbeTables \cup {None}}

Pages == {"enhanced", "integrated"}

-----------------------------------------------------------------------------
(* Area query: the steps of analyze_enhanced_area (page 13) and            *)
(* analyze_area_criteria (page 12)                                         *)

inputVars == <<page, polygon_coords, data>>

\* (the variant that tests `not polygon_coords` only)
too_short_empty_only(pcoords) == pcoords = None \/ PyLen(pcoords) = 0
\* `if not polygon_coords or len(polygon_coords) < 3: return None`
too_short(pcoords) == pcoords = None \/ PyLen(pcoords) = 0 \/ PyLen(pcoords) < 3

CheckArgs ==
    /\ pc = "check"
    /\ IF too_short(polygon_coords)
       THEN ret' = "None" /\ pc' = "done"
       ELSE ret' = ret /\ pc' = "build"
    /\ UNCHANGED <<inputVars, polygon, test_points, alt_test_points, results,
                   valid_scores, total_points>>
    /\ UNCHANGED <<gridVars, aqiVars, interpVars,
                 synthVars, datasetVars, polytestVars, recsVars, prepareVars, coordVars, parallelVars, topoVars>>

\* page 13 lines 140-143
CheckArgsEnhanced == page = "enhanced" /\ CheckArgs
\* page 12 lines 204-206
CheckArgsIntegrated == page = "integrated" /\ CheckArgs

BuildPolygon(built) ==
    /\ pc = "build"
    /\ polygon' = built
    /\ IF built = Raised
       THEN ret' = "None" /\ pc' = "done"
       ELSE ret' = ret /\ pc' = "probe"
    /\ UNCHANGED <<inputVars, test_points, alt_test_points, results,
                   valid_scores, total_points>>
    /\ UNCHANGED <<gridVars, aqiVars, interpVars,
                 synthVars, datasetVars, polytestVars, recsVars, prepareVars, coordVars, parallelVars, topoVars>>

\* page 13 lines 146-154 (an exception returns None, lines 209-210)
BuildPolygonEnhanced ==
    page = "enhanced" /\ BuildPolygon(build_polygon_enhanced(polygon_coords))
\* page 12 lines 214-243 (an exception returns None, lines 295-298)
BuildPolygonIntegrated ==
    page = "integrated" /\ BuildPolygon(build_polygon_integrated(polygon_coords))

\* The probe of the assumed polygon against the topography table; without a
\* table, or with an empty one, nothing is probed.
Probe(count) ==
    /\ pc = "probe"
    /\ IF data.topography # None /\ TableLen(data.topography) > 0
       THEN /\ test_points' = count
            /\ pc' = IF count = 0 THEN "alt" ELSE "init"
       ELSE /\ test_points' = test_points
            /\ pc' = "init"
    /\ UNCHANGED <<inputVars, polygon, alt_test_points, results, valid_scores,
                   total_points, ret>>
    /\ UNCHANGED <<gridVars, aqiVars, interpVars,
                 synthVars, datasetVars, polytestVars, recsVars, prepareVars, coordVars, parallelVars, topoVars>>

\* page 13 lines 157-177
ProbeEnhanced ==
    page = "enhanced" /\ Probe(probe_enhanced(data.topography, polygon))
\* page 12 lines 256-266
ProbeIntegrated ==
    page = "integrated" /\ Probe(probe_integrated(data.topography, polygon))

\* The probe of the alternate polygon, taken when the first probe found
\* nothing; an exception leaves the polygon as it is.
AltProbe(alt, count) ==
    /\ pc = "alt"
    /\ IF alt = Raised
       THEN UNCHANGED <<polygon, alt_test_points>>
       ELSE /\ alt_test_points' = count
            /\ polygon' = adopt(polygon, alt, test_points, count)
    /\ pc' = "init"
    /\ UNCHANGED <<inputVars, test_points, results, valid_scores, total_points, ret>>
    /\ UNCHANGED <<gridVars, aqiVars, interpVars,
                 synthVars, datasetVars, polytestVars, recsVars, prepareVars, coordVars, parallelVars, topoVars>>

\* page 13 lines 180-207
AltProbeEnhanced ==
    /\ page = "enhanced"
    /\ LET alt == alt_polygon_enhanced(polygon_coords)
       IN  AltProbe(alt, IF alt = Raised THEN 0
                         ELSE probe_enhanced(data.topography, alt))
\* page 12 lines 269-293
AltProbeIntegrated ==
    /\ page = "integrated"
    /\ LET alt == alt_polygon_integrated(polygon_coords)
       IN  AltProbe(alt, IF alt = Raised THEN 0
                         ELSE probe_integrated(data.topography, alt))

InitResults ==
    /\ pc = "init"
    /\ results' = initial_results
    /\ valid_scores' = <<>>
    /\ total_points' = 0
    /\ pc' = "air_quality"
    /\ UNCHANGED <<inputVars, polygon, test_points, alt_test_points, ret>>
    /\ UNCHANGED <<gridVars, aqiVars, interpVars,
                 synthVars, datasetVars, polytestVars, recsVars, prepareVars, coordVars, parallelVars, topoVars>>

\* page 13 lines 212-241
InitResultsEnhanced == page = "enhanced" /\ InitResults
\* page 12 lines 300-324
InitResultsIntegrated == page = "integrated" /\ InitResults

\* The analysis of one criterion stores its outcome o in its own entry of
\* results and, if a score was computed, appends it to valid_scores.
\* Page 13 also records the number of points and adds it to total_points.
Analyze(at, criterion, o, next) ==
    /\ pc = at
    /\ IF o.has
       THEN /\ results' = [results EXCEPT !.criteria[criterion] =
                   [score |-> o.score, status |-> o.status,
                    details |-> IF page = "enhanced"
                                THEN << <<"points_analyzed", o.points>> >> ELSE <<>>]]
            /\ valid_scores' = Append(valid_scores, o.score)
            /\ total_points' = IF page = "enhanced" THEN total_points + o.points
                               ELSE total_points
       ELSE UNCHANGED <<results, valid_scores, total_points>>
    /\ pc' = next
    /\ UNCHANGED <<inputVars, polygon, test_points, alt_test_points, ret>>
    /\ UNCHANGED <<gridVars, aqiVars, interpVars,
                 synthVars, datasetVars, polytestVars, recsVars, prepareVars, coordVars, parallelVars, topoVars>>

AirQualityEnhanced ==
    page = "enhanced" /\
    Analyze("air_quality", "air_quality",
            air_quality_enhanced(data, polygon), "heat_greenspace")
HeatGreenspaceEnhanced ==
    page = "enhanced" /\
    Analyze("heat_greenspace", "heat_greenspace",
            heat_greenspace_enhanced(data, polygon), "topography")
TopographyEnhanced ==
    page = "enhanced" /\
    Analyze("topography", "topography",
            topography_enhanced(data, polygon), "infrastructure")
InfrastructureEnhanced ==
    page = "enhanced" /\
    Analyze("infrastructure", "infrastructure",
            infrastructure_enhanced(data, polygon), "population")
PopulationEnhanced ==
    page = "enhanced" /\
    Analyze("population", "population",
            population_enhanced(data, polygon), "economic_activity")
EconomicActivityEnhanced ==
    page = "enhanced" /\
    Analyze("economic_activity", "economic_activity",
            economic_activity_enhanced(data, polygon), "overall")

AirQualityIntegrated ==
    page = "integrated" /\
    Analyze("air_quality", "air_quality",
            air_quality_integrated(data, polygon), "heat_greenspace")
HeatGreenspaceIntegrated ==
    page = "integrated" /\
    Analyze("heat_greenspace", "heat_greenspace",
            heat_greenspace_integrated(data, polygon), "infrastructure")
InfrastructureIntegrated ==
    page = "integrated" /\
    Analyze("infrastructure", "infrastructure",
            infrastructure_integrated(data, polygon), "population")
PopulationIntegrated ==
    page = "integrated" /\
    Analyze("population", "population",
            population_integrated(data, polygon), "economic_activity")
EconomicActivityIntegrated ==
    page = "integrated" /\
    Analyze("economic_activity", "economic_activity",
            economic_activity_integrated(data, polygon), "topography")
TopographyIntegrated ==
    page = "integrated" /\
    Analyze("topography", "topography",
            topography_integrated(data, polygon), "overall")

\* The overall score and status, and the return of results.
\* (the variant without the division by the number of scores)
overall_of_sum(scores) == RSum(scores)
overall_of(scores) == Mean(scores)

Overall ==
    /\ pc = "overall"
    /\ results' =
         LET counted == [results EXCEPT !.analysis_points =
                            IF page = "enhanced" THEN total_points ELSE @]
         IN  IF valid_scores # <<>>
             THEN [counted EXCEPT !.overall_score = overall_of(valid_scores),
                                  !.overall_status =
                                      overall_status_of(overall_of(valid_scores))]
             ELSE counted
    /\ ret' = "results"
    /\ pc' = "done"
    /\ UNCHANGED <<inputVars, polygon, test_points, alt_test_points, valid_scores,
                   total_points>>
    /\ UNCHANGED <<gridVars, aqiVars, interpVars,
                 synthVars, datasetVars, polytestVars, recsVars, prepareVars, coordVars, parallelVars, topoVars>>

\* page 13 lines 627-663
OverallEnhanced == page = "enhanced" /\ Overall
\* page 12 lines 678-691
OverallIntegrated == page = "integrated" /\ Overall

NextArea ==
    \/ CheckArgsEnhanced \/ BuildPolygonEnhanced \/ ProbeEnhanced \/ AltProbeEnhanced
    \/ InitResultsEnhanced \/ AirQualityEnhanced \/ HeatGreenspaceEnhanced
    \/ TopographyEnhanced \/ InfrastructureEnhanced \/ PopulationEnhanced
    \/ EconomicActivityEnhanced \/ OverallEnhanced
    \/ CheckArgsIntegrated \/ BuildPolygonIntegrated \/ ProbeIntegrated
    \/ AltProbeIntegrated \/ InitResultsIntegrated \/ AirQualityIntegrated
    \/ HeatGreenspaceIntegrated \/ InfrastructureIntegrated \/ PopulationIntegrated
    \/ EconomicActivityIntegrated \/ TopographyIntegrated \/ OverallIntegrated

-----------------------------------------------------------------------------
(* Scattered-data interpolation: interpolate_to_grid                       *)
(* (prepare_enhanced_data.py lines 46-78)                                  *)
(* A row of source_data is [lat, lon, value], each a rational or NaN; a    *)
(* target point is <<lat, lon>> in integers.                               *)

\* np.full(len(target_grid), np.nan)
full_nan(n) == [i \in 1 .. n |-> NaN]

\* source_data.dropna(subset=['lat', 'lon', value_column])
RECURSIVE dropna(_)
dropna(rows) ==
    IF rows = <<>> THEN <<>>
    ELSE LET r == Head(rows)
         IN  IF IsNaN(r.lat) \/ IsNaN(r.lon) \/ IsNaN(r.value)
             THEN dropna(Tail(rows))
             ELSE <<r>> \o dropna(Tail(rows))

\* valid_data[['lat', 'lon']].values and valid_data[value_column].values
source_points_of(valid) == [i \in DOMAIN valid |-> <<valid[i].lat.n, valid[i].lon.n>>]
source_values_of(valid) == [i \in DOMAIN valid |-> valid[i].value]

\* ---- scipy.interpolate.griddata(points, values, xi, method='linear'):
\* the Delaunay triangulation of the points, and in the triangle that holds
\* a target point the plane through its three values; NaN outside the
\* convex hull.  Qhull raises when the points have no triangle (fewer than
\* three distinct points, or all on one line).
\* The point p lies strictly inside the circle through a, b, c.
InCircle(a, b, c, p) ==
    LET ax == a[1] - p[1]  ay == a[2] - p[2]
        bx == b[1] - p[1]  by == b[2] - p[2]
        cx == c[1] - p[1]  cy == c[2] - p[2]
        det == (ax * ax + ay * ay) * (bx * cy - cx * by)
             - (bx * bx + by * by) * (ax * cy - cx * ay)
             + (cx * cx + cy * cy) * (ax * by - bx * ay)
    IN  IF Cross(a, b, c) > 0 THEN det > 0 ELSE det < 0

\* The triangles of the triangulation, as triples of point indices.
Delaunay(pts) ==
    {t \in (DOMAIN pts) \X (DOMAIN pts) \X (DOMAIN pts) :
        /\ t[1] < t[2] /\ t[2] < t[3]
        /\ Cross(pts[t[1]], pts[t[2]], pts[t[3]]) # 0
        /\ \A k \in DOMAIN pts : ~InCircle(pts[t[1]], pts[t[2]], pts[t[3]], pts[k])}

\* The triangle t holds the point p (its boundary included).
InTriangle(pts, t, p) ==
    LET d1 == Cross(pts[t[1]], pts[t[2]], p)
        d2 == Cross(pts[t[2]], pts[t[3]], p)
        d3 == Cross(pts[t[3]], pts[t[1]], p)
    IN  (d1 >= 0 /\ d2 >= 0 /\ d3 >= 0) \/ (d1 <= 0 /\ d2 <= 0 /\ d3 <= 0)

\* The plane through the three values of triangle t, at p.
Barycentric(pts, vals, t, p) ==
    LET area == Cross(pts[t[1]], pts[t[2]], pts[t[3]])
        w1   == Cross(pts[t[2]], pts[t[3]], p)
        w2   == Cross(pts[t[3]], pts[t[1]], p)
        w3   == Cross(pts[t[1]], pts[t[2]], p)
    IN  RDiv(RAdd(RAdd(RMul(RInt(w1), vals[t[1]]), RMul(RInt(w2), vals[t[2]])),
                  RMul(RInt(w3), vals[t[3]])),
             RInt(area))

griddata_raises(pts) == Delaunay(pts) = {}

griddata_linear(pts, vals, xi) ==
    [i \in DOMAIN xi |->
        LET holding == {t \in Delaunay(pts) : InTriangle(pts, t, xi[i])}
        IN  IF holding = {} THEN NaN
            ELSE Barycentric(pts, vals, CHOOSE t \in holding : TRUE, xi[i])]

\* ---- griddata(..., method='nearest'): the value of the closest point (the
\* first of them in the input at equal distances).
Dist2(a, b) == (a[1] - b[1]) * (a[1] - b[1]) + (a[2] - b[2]) * (a[2] - b[2])
nearest_index(pts, p) ==
    CHOOSE k \in DOMAIN pts :
        \A j \in DOMAIN pts :
            \/ Dist2(pts[k], p) < Dist2(pts[j], p)
            \/ (Dist2(pts[k], p) = Dist2(pts[j], p) /\ k <= j)
griddata_nearest(pts, vals, xi) ==
    [i \in DOMAIN xi |-> vals[nearest_index(pts, xi[i])]]

\* np.where(np.isnan(interpolated_linear), interpolated_nearest,
\*          interpolated_linear)
combine(linear, nearest) ==
    [i \in DOMAIN linear |-> IF IsNaN(linear[i]) THEN nearest[i] ELSE linear[i]]

\* ---- inputs
\* Scattered samples: a triangle A, B, C, a fourth sample D on its edge A-B,
\* a sample without a value and a sample without a latitude.
Sample(lat, lon, value) == [lat |-> lat, lon |-> lon, value |-> value]
SamplePool ==
    << Sample(RInt(0), RInt(0), RInt(10)),
       Sample(RInt(6), RInt(0), RInt(30)),
       Sample(RInt(3), RInt(0), RInt(20)),
       Sample(RInt(0), RInt(6), RInt(50)),
       Sample(RInt(2), RInt(2), NaN),
       Sample(NaN, RInt(1), RInt(40)) >>

\* The samples of the pool with an index in S, in the order of the pool.
RECURSIVE PoolRows(_, _)
PoolRows(S, i) ==
    IF i > Len(SamplePool) THEN <<>>
    ELSE (IF i \in S THEN <<SamplePool[i]>> ELSE <<>>) \o PoolRows(S, i + 1)
SourceTables == {PoolRows(S, 1) : S \in SUBSET (DOMAIN SamplePool)}

\* Target grids: a point inside the triangle, then one outside the hull.
TargetInside  == <<1, 2>>
TargetOutside == <<7, 5>>
TargetGrids == {<<TargetInside>>, <<TargetInside, TargetOutside>>}

\* ---- the steps of interpolate_to_grid
\* lines 48-49
InterpCheckLength ==
    /\ ipc = "length"
    /\ IF Len(source_data) < 3
       THEN interp_result' = full_nan(Len(target_points)) /\ ipc' = "done"
       ELSE interp_result' = interp_result /\ ipc' = "dropna"
    /\ UNCHANGED <<source_data, target_points, valid_data, interpolated_linear,
                   interpolated_nearest>>
    /\ UNCHANGED <<gridVars, aqiVars, areaVars,
                 synthVars, datasetVars, polytestVars, recsVars, prepareVars, coordVars, parallelVars, topoVars>>

\* lines 52-54
InterpDropNa ==
    /\ ipc = "dropna"
    /\ valid_data' = dropna(source_data)
    /\ IF Len(valid_data') < 3
       THEN interp_result' = full_nan(Len(target_points)) /\ ipc' = "done"
       ELSE interp_result' = interp_result /\ ipc' = "linear"
    /\ UNCHANGED <<source_data, target_points, interpolated_linear,
                   interpolated_nearest>>
    /\ UNCHANGED <<gridVars, aqiVars, areaVars,
                 synthVars, datasetVars, polytestVars, recsVars, prepareVars, coordVars, parallelVars, topoVars>>

\* lines 57-66, and 76-78 when griddata raises
InterpLinear ==
    /\ ipc = "linear"
    /\ IF griddata_raises(source_points_of(valid_data))
       THEN /\ interp_result' = full_nan(Len(target_points))
            /\ interpolated_linear' = interpolated_linear
            /\ ipc' = "done"
       ELSE /\ interpolated_linear' =
                   griddata_linear(source_points_of(valid_data),
                                   source_values_of(valid_data), target_points)
            /\ interp_result' = interp_result
            /\ ipc' = "nearest"
    /\ UNCHANGED <<source_data, target_points, valid_data, interpolated_nearest>>
    /\ UNCHANGED <<gridVars, aqiVars, areaVars,
                 synthVars, datasetVars, polytestVars, recsVars, prepareVars, coordVars, parallelVars, topoVars>>

\* lines 68-69
InterpNearest ==
    /\ ipc = "nearest"
    /\ interpolated_nearest' =
           griddata_nearest(source_points_of(valid_data),
                            source_values_of(valid_data), target_points)
    /\ ipc' = "combine"
    /\ UNCHANGED <<source_data, target_points, valid_data, interpolated_linear,
                   interp_result>>
    /\ UNCHANGED <<gridVars, aqiVars, areaVars,
                 synthVars, datasetVars, polytestVars, recsVars, prepareVars, coordVars, parallelVars, topoVars>>

\* lines 71-74
InterpCombine ==
    /\ ipc = "combine"
    /\ interp_result' = combine(interpolated_linear, interpolated_nearest)
    /\ ipc' = "done"
    /\ UNCHANGED <<source_data, target_points, valid_data, interpolated_linear,
                   interpolated_nearest>>
    /\ UNCHANGED <<gridVars, aqiVars, areaVars,
                 synthVars, datasetVars, polytestVars, recsVars, prepareVars, coordVars, parallelVars, topoVars>>

NextInterp ==
    \/ InterpCheckLength \/ InterpDropNa \/ InterpLinear
    \/ InterpNearest \/ InterpCombine

-----------------------------------------------------------------------------
(* Field synthesis: interpolate_pollutant_data                             *)
(* (create_consistent_air_quality_grid.py lines 54-170)                    *)
(* The exponential, the square root and the sine are not computed: a grid  *)
(* point carries the sum of the Gaussian contributions of the sources at   *)
(* its place (lines 122-129), and a date carries its                       *)
(* sin(2 pi dayofyear / 365.25) in tenths.                                 *)

\* lines 132-143: background and noise_scale of a pollutant
background_of(pollutant) ==
    IF      pollutant = "O3"     THEN RInt(260)
    ELSE IF pollutant = "CO"     THEN Rat(3, 10)
    ELSE IF pollutant = "AER_AI" THEN Rat(5, 10)
    ELSE RInt(5)
noise_scale_of(pollutant) ==
    IF      pollutant = "O3"     THEN RInt(15)
    ELSE IF pollutant = "CO"     THEN Rat(2, 10)
    ELSE IF pollutant = "AER_AI" THEN Rat(3, 10)
    ELSE RInt(3)

\* The strength of the first source of a pollutant (lines 71-104);
\* pollutant_sources.get(pollutant_name, pollutant_sources['NO2']).
first_strength(pollutant) ==
    IF      pollutant = "NO2"    THEN RInt(60)
    ELSE IF pollutant = "SO2"    THEN RInt(30)
    ELSE IF pollutant = "CO"     THEN Rat(25, 10)
    ELSE IF pollutant = "O3"     THEN RInt(320)
    ELSE IF pollutant = "HCHO"   THEN RInt(8)
    ELSE IF pollutant = "AER_AI" THEN Rat(25, 10)
    ELSE RInt(60)

\* line 145: total_contribution + background + np.random.normal(0, noise_scale),
\* the draw given in multiples of noise_scale.
base_value(pollutant, total_contribution, draw) ==
    RAdd(RAdd(total_contribution, background_of(pollutant)),
         RMul(RInt(draw), noise_scale_of(pollutant)))

\* line 148: np.maximum(base_values, background * 0.1)
\* (the variant with a floor of 0)
floor_at_zero(values, pollutant) ==
    [i \in DOMAIN values |-> PyMax(values[i], RInt(0))]
floor_values(values, pollutant) ==
    [i \in DOMAIN values |->
        PyMax(values[i], RMul(background_of(pollutant), Rat(1, 10)))]

\* line 151: 1.0 + 0.3 * sin(...), the sine of the date in tenths
time_variation(date) == RAdd(RInt(1), RMul(Rat(3, 10), Rat(date, 10)))

\* line 152: base_values *= time_variation
scale_values(values, date) ==
    [i \in DOMAIN values |-> RMul(values[i], time_variation(date))]

\* lines 155-163: the rows appended for one date
rows_of_date(date, grid, values, pollutant) ==
    [i \in DOMAIN grid |->
        [date |-> date, lat |-> grid[i].lat, lon |-> grid[i].lon,
         grid_id |-> grid[i].grid_id, value |-> values[i],
         pollutant |-> pollutant]]

\* ---- inputs
MaxDates == 2       \* dates of original_data

\* The target grid: a point at the first source of the pollutant, where the
\* contributions add up to the strength of that source, and a point far from
\* every source, where they add up to 0.
SynthGrid(pollutant) ==
    << [grid_id |-> 0, lat |-> 35480, lon |-> 45350,
        total_contribution |-> first_strength(pollutant)],
       [grid_id |-> 1, lat |-> 35480, lon |-> 45520,
        total_contribution |-> RInt(0)] >>

\* Dates of the falling, the rising and the level part of the year.
DateCycle == <<-10, 10, 0>>
DateLists == {[i \in 1 .. n |-> CycleAt(DateCycle, i)] : n \in 1 .. MaxDates}

SynthPollutants == {"NO2", "CO", "O3", "AER_AI"}

\* Draws of np.random.normal(0, noise_scale), in multiples of noise_scale.
SynthDraws == {-2, 1}

\* ---- the steps of interpolate_pollutant_data
synthInputs == <<pollutant_name, target_grid, synth_dates>>

\* lines 120-145: one iteration of the loop over the grid points
SynthPoint ==
    /\ spc = "points"
    /\ Len(base_values) < Len(target_grid)
    /\ \E draw \in SynthDraws :
         base_values' = Append(base_values,
             base_value(pollutant_name,
                        target_grid[Len(base_values) + 1].total_contribution, draw))
    /\ UNCHANGED <<spc, synthInputs, date_i, interpolated_data, synth_calls,
                   first_result>>
    /\ UNCHANGED <<gridVars, aqiVars, areaVars,
                 interpVars, datasetVars, polytestVars, recsVars, prepareVars, coordVars, parallelVars, topoVars>>

\* line 148
SynthFloor ==
    /\ spc = "points"
    /\ Len(base_values) = Len(target_grid)
    /\ base_values' = floor_values(base_values, pollutant_name)
    /\ spc' = "season"
    /\ UNCHANGED <<synthInputs, date_i, interpolated_data, synth_calls, first_result>>
    /\ UNCHANGED <<gridVars, aqiVars, areaVars,
                 interpVars, datasetVars, polytestVars, recsVars, prepareVars, coordVars, parallelVars, topoVars>>

\* lines 151-152
SynthSeason ==
    /\ spc = "season"
    /\ base_values' = scale_values(base_values, synth_dates[date_i])
    /\ spc' = "emit"
    /\ UNCHANGED <<synthInputs, date_i, interpolated_data, synth_calls, first_result>>
    /\ UNCHANGED <<gridVars, aqiVars, areaVars,
                 interpVars, datasetVars, polytestVars, recsVars, prepareVars, coordVars, parallelVars, topoVars>>

\* lines 155-163, and the step to the next date (line 114) or to the return
SynthEmit ==
    /\ spc = "emit"
    /\ interpolated_data' = interpolated_data \o
           rows_of_date(synth_dates[date_i], target_grid, base_values, pollutant_name)
    /\ IF date_i < Len(synth_dates)
       THEN date_i' = date_i + 1 /\ base_values' = <<>> /\ spc' = "points"
       ELSE date_i' = date_i /\ base_values' = base_values /\ spc' = "returned"
    /\ UNCHANGED <<synthInputs, synth_calls, first_result>>
    /\ UNCHANGED <<gridVars, aqiVars, areaVars,
                 interpVars, datasetVars, polytestVars, recsVars, prepareVars, coordVars, parallelVars, topoVars>>

\* A second call with the same arguments, after the first has returned its
\* result_df (lines 165-170).
SynthCallAgain ==
    /\ spc = "returned"
    /\ synth_calls = 0
    /\ first_result' = interpolated_data
    /\ synth_calls' = 1
    /\ interpolated_data' = <<>> /\ base_values' = <<>> /\ date_i' = 1
    /\ spc' = "points"
    /\ UNCHANGED synthInputs
    /\ UNCHANGED <<gridVars, aqiVars, areaVars,
                 interpVars, datasetVars, polytestVars, recsVars, prepareVars, coordVars, parallelVars, topoVars>>

NextSynth ==
    \/ SynthPoint \/ SynthFloor \/ SynthSeason \/ SynthEmit \/ SynthCallAgain

-----------------------------------------------------------------------------
(* The multi-pollutant dataset: create_consistent_air_quality_dataset      *)
(* (create_consistent_air_quality_grid.py lines 172-285)                   *)
(* A call of interpolate_pollutant_data is one step of the loop over the   *)
(* pollutants; its noise is one draw for the whole call.                   *)

\* lines 183-190: the keys of POLLUTANTS, in the order of the dict
POLLUTANTS == <<"NO2", "SO2", "CO", "O3", "HCHO", "AER_AI">>

\* pd.Series.unique(): the values in the order of their first appearance
\* (the variant that keeps every appearance)
unique_keeping_all(s) == s
RECURSIVE unique(_)
unique(s) ==
    IF s = <<>> THEN <<>>
    ELSE LET front == unique(SubSeq(s, 1, Len(s) - 1))
             last  == s[Len(s)]
         IN IF \E i \in DOMAIN front : front[i] = last
            THEN front ELSE Append(front, last)

\* lines 114-163 for the dates from index k on: the rows of each date
RECURSIVE rows_of_dates(_, _, _, _, _)
rows_of_dates(ds, k, grid, pollutant, draw) ==
    IF k > Len(ds) THEN <<>>
    ELSE LET drawn  == [i \in DOMAIN grid |->
                          base_value(pollutant, grid[i].total_contribution, draw)]
             values == scale_values(floor_values(drawn, pollutant), ds[k])
         IN rows_of_date(ds[k], grid, values, pollutant)
                \o rows_of_dates(ds, k + 1, grid, pollutant, draw)

\* lines 54-170: the result_df of a call, original_data holding the dates ds
interpolate_pollutant_data(ds, grid, pollutant, draw) ==
    rows_of_dates(unique(ds), 1, grid, pollutant, draw)

\* lines 263-271: the value of the first row of pollutant_data with this date
\* and this grid_id, np.nan when there is none
matching_value(pollutant_data, date, grid_id) ==
    LET matching == {i \in DOMAIN pollutant_data :
                        /\ pollutant_data[i].date = date
                        /\ pollutant_data[i].grid_id = grid_id}
    IN IF matching = {} THEN NaN
       ELSE pollutant_data[CHOOSE i \in matching : \A j \in matching : i <= j].value

\* lines 254-273: the row of the combined table for a date and a grid point
row_data(datasets, date, grid_point) ==
    [date |-> date, lat |-> grid_point.lat, lon |-> grid_point.lon,
     grid_id |-> grid_point.grid_id,
     values |-> [k \in DOMAIN POLLUTANTS |->
                    matching_value(datasets[k], date, grid_point.grid_id)]]

\* ---- inputs
\* line 193: dates = [(datetime.now() - timedelta(days=i)).strftime(...)]:
\* consecutive days, one of them twice when midnight passes between two
\* readings of the clock.
DayLists ==
    {[i \in 1 .. n |-> CycleAt(DateCycle, i)] : n \in 1 .. MaxDates}
      \cup {[i \in 1 .. n |-> CycleAt(DateCycle, IF i > k THEN i - 1 ELSE i)] :
               n \in 2 .. MaxDates, k \in 1 .. MaxDates - 1}

\* line 180: the grid, with the contributions of the sources of a pollutant
grid_of(pollutant) == SynthGrid(pollutant)

\* ---- the steps of create_consistent_air_quality_dataset
\* lines 197-233: one iteration of the loop over POLLUTANTS
DatasetPollutant ==
    /\ dspc = "pollutants"
    /\ LET k == Len(all_datasets) + 1
       IN /\ \E draw \in SynthDraws :
                all_datasets' = Append(all_datasets,
                    interpolate_pollutant_data(dataset_dates, grid_of(POLLUTANTS[k]),
                                               POLLUTANTS[k], draw))
          /\ dspc' = IF k = Len(POLLUTANTS) THEN "combine" ELSE "pollutants"
    /\ UNCHANGED <<dataset_dates, combined_data>>
    /\ UNCHANGED <<gridVars, aqiVars, areaVars,
                 interpVars, synthVars, polytestVars, recsVars, prepareVars, coordVars, parallelVars, topoVars>>

\* lines 247-273: one iteration of the loops over dates and grid points
DatasetCombine ==
    /\ dspc = "combine"
    /\ LET grid == grid_of(POLLUTANTS[1])
           n    == Len(combined_data)
           d    == (n \div Len(grid)) + 1
           g    == (n % Len(grid)) + 1
       IN /\ combined_data' =
                Append(combined_data, row_data(all_datasets, dataset_dates[d], grid[g]))
          /\ dspc' = IF n + 1 = Len(dataset_dates) * Len(grid) THEN "done" ELSE "combine"
    /\ UNCHANGED <<dataset_dates, all_datasets>>
    /\ UNCHANGED <<gridVars, aqiVars, areaVars,
                 interpVars, synthVars, polytestVars, recsVars, prepareVars, coordVars, parallelVars, topoVars>>

NextDataset ==
    \/ DatasetPollutant \/ DatasetCombine

-----------------------------------------------------------------------------
(* The polygon test: test_polygon_analysis (test_polygon_fix.py lines      *)
(* 61-105), for one dataset                                                *)

\* lines 68-74: the closed ring of [lon, lat] pairs around the centre, the
\* centre taken at 45.416 E, 35.565 N and buffer_size = 0.01
TestSquare ==
    << <<45406, 35555>>, <<45426, 35555>>, <<45426, 35575>>, <<45406, 35575>>,
       <<45406, 35555>> >>
\* Two more rings: a triangle and a ring with a reflex corner.
TestTriangle == << <<45406, 35555>>, <<45426, 35555>>, <<45406, 35575>> >>
TestAngle ==
    << <<45406, 35555>>, <<45426, 35555>>, <<45426, 35565>>, <<45416, 35565>>,
       <<45416, 35575>>, <<45406, 35575>> >>
TestPolygons == {TestSquare, TestTriangle, TestAngle}

\* Rows of a dataset: at the centre, on an edge, off an edge by the buffer
\* distance and by less than twice that, off a corner diagonally, in the
\* reflex corner, far away.
TestSites ==
    { [lon |-> 45410, lat |-> 35560], [lon |-> 45416, lat |-> 35555],
      [lon |-> 45416, lat |-> 35554], [lon |-> 45405, lat |-> 35554],
      [lon |-> 45417, lat |-> 35566], [lon |-> 45420, lat |-> 35570],
      [lon |-> 45300, lat |-> 35400] }

MaxTestRows == 3    \* rows of the dataset

\* lines 88-96: one iteration of the loop over data.iterrows()
TestRow ==
    /\ tpc = "rows"
    /\ row_k < Len(test_rows)
    /\ LET row   == test_rows[row_k + 1]
           point == <<row.lon, row.lat>>
       IN /\ points_in_polygon' =
                IF Contains(test_polygon, 0, point)
                THEN points_in_polygon + 1 ELSE points_in_polygon
          /\ points_in_buffered' =
                IF Contains(test_polygon, BufferSize, point)
                THEN points_in_buffered + 1 ELSE points_in_buffered
    /\ row_k' = row_k + 1
    /\ UNCHANGED <<tpc, test_polygon, test_rows>>
    /\ UNCHANGED <<gridVars, aqiVars, areaVars,
                 interpVars, synthVars, datasetVars, recsVars, prepareVars, coordVars, parallelVars, topoVars>>

\* lines 98-102: the counts of the dataset are reported
TestReport ==
    /\ tpc = "rows"
    /\ row_k = Len(test_rows)
    /\ tpc' = "done"
    /\ UNCHANGED <<test_polygon, test_rows, row_k, points_in_polygon,
                   points_in_buffered>>
    /\ UNCHANGED <<gridVars, aqiVars, areaVars,
                 interpVars, synthVars, datasetVars, recsVars, prepareVars, coordVars, parallelVars, topoVars>>

NextPolygonTest ==
    \/ TestRow \/ TestReport

-----------------------------------------------------------------------------
(* Integrated recommendations                                              *)
(* (pages/13_... lines 633-643 and 901-914, pages/12_... lines 968-994)    *)
(* A recommendation is its text.  `word in rec.lower()` is looked up in    *)
(* KeywordsIn, which lists, for each text, the keywords of either page     *)
(* that occur in the text in lower case.                                   *)

KeywordsIn(rec) ==
    CASE rec = "Urgent emission controls needed"                     -> {"urgent"}
      [] rec = "Urgent need for emission controls"                   -> {"urgent"}
      [] rec = "Slope stabilization required"                        -> {"required"}
      [] rec = "Area is overcrowded - avoid further development"     -> {"avoid"}
      [] rec = "Consider alternative locations for major development" -> {"major"}
      [] OTHER -> {}

\* page 13 lines 639 and 903-905
priority_keywords_enhanced == {"urgent", "critical", "immediate", "required"}
\* page 12 line 981
priority_keywords_integrated == {"urgent", "critical", "major", "avoid"}

\* any(keyword in rec.lower() for keyword in keywords)
flagged(rec, keywords) == KeywordsIn(rec) \cap keywords # {}

\* [rec for rec in recs if any(...)] and [rec for rec in recs if not any(...)]
flagged_of(recs, keywords) ==
    LET Test(rec) == flagged(rec, keywords) IN SelectSeq(recs, Test)
unflagged_of(recs, keywords) ==
    LET Test(rec) == ~flagged(rec, keywords) IN SelectSeq(recs, Test)

\* The lists a set can be iterated as.
OrdersOf(S) ==
    {q \in [1 .. Cardinality(S) -> S] :
        \A i, j \in 1 .. Cardinality(S) : q[i] = q[j] => i = j}

SeqRange(s) == {s[i] : i \in DOMAIN s}

\* s[:n]
FirstN(s, n) == SubSeq(s, 1, IF Len(s) < n THEN Len(s) ELSE n)

\* The order of results['criteria'] (page 13 lines 216-221) and of
\* criteria_data (page 12 lines 890-897).
CriteriaOrder(pg) ==
    IF pg = "enhanced"
    THEN <<"air_quality", "heat_greenspace", "topography", "infrastructure",
           "economic_activity", "population">>
    ELSE <<"air_quality", "heat_greenspace", "topography", "infrastructure",
           "economic_activity", "population">>

\* all_recs.extend(criteria['recommendations']) over the criteria from k on
RECURSIVE extend_all(_, _, _)
extend_all(recs, order, k) ==
    IF k > Len(order) THEN <<>>
    ELSE recs[order[k]] \o extend_all(recs, order, k + 1)

\* ---- inputs: the recommendation lists the analysis leaves
\* page 13 lines 273-307, 423-432, 545-554
RecOptionsEnhanced(c) ==
    CASE c = "air_quality" ->
            { <<>>,
              <<"Install air monitoring stations", "Create green buffers">>,
              <<"Urgent emission controls needed", "Restrict industrial activities">> }
      [] c = "topography" ->
            { <<>>, <<"Slope stabilization required", "Terracing recommended">> }
      [] c = "population" ->
            { <<>>, <<"Suitable for managed growth">> }
      [] OTHER -> { <<>> }
\* page 12 lines 361-382, 528-543, 645-673
RecOptionsIntegrated(c) ==
    CASE c = "air_quality" ->
            { <<>>,
              <<"Maintain current air quality standards">>,
              <<"Urgent need for emission controls",
                "Relocate sensitive facilities (schools, hospitals)",
                "Implement industrial pollution controls",
                "Create extensive green corridors">> }
      [] c = "topography" ->
            { <<>>, <<"Suitable terrain for development">>,
              <<"Consider alternative locations for major development">> }
      [] c = "population" ->
            { <<>>,
              <<"Area is overcrowded - avoid further development",
                "Improve public services for existing population",
                "Consider population redistribution strategies">>,
              <<"Suitable for sustainable development",
                "Plan infrastructure to match growth">> }
      [] OTHER -> { <<>> }

MaxRecs == 5        \* recommendation strings of a result

RecLists(pg) ==
    {r \in [Criteria -> UNION {RecOptionsEnhanced(c) \cup RecOptionsIntegrated(c) :
                                  c \in Criteria}] :
        /\ \A c \in Criteria :
             r[c] \in (IF pg = "enhanced" THEN RecOptionsEnhanced(c)
                       ELSE RecOptionsIntegrated(c))
        /\ Len(extend_all(r, CriteriaOrder(pg), 1)) <= MaxRecs}

\* ---- page 13
\* lines 633-643, in analyze_enhanced_area
RecsIntegrateEnhanced ==
    /\ rpage = "enhanced" /\ rpc = "collect"
    /\ LET recs          == extend_all(criteria_recs, CriteriaOrder(rpage), 1)
           high_priority == flagged_of(recs, priority_keywords_enhanced)
           other         == unflagged_of(recs, priority_keywords_enhanced)
       IN /\ all_recs' = recs
          /\ integrated_recommendations' \in OrdersOf(SeqRange(high_priority \o other))
    /\ rpc' = "display"
    /\ UNCHANGED <<rpage, criteria_recs, priority_recs, other_recs>>
    /\ UNCHANGED <<gridVars, aqiVars, areaVars,
                 interpVars, synthVars, datasetVars, polytestVars, prepareVars, coordVars, parallelVars, topoVars>>

\* lines 901-914, in the page script
RecsDisplayEnhanced ==
    /\ rpage = "enhanced" /\ rpc = "display"
    /\ priority_recs' =
          FirstN(flagged_of(integrated_recommendations, priority_keywords_enhanced), 5)
    /\ other_recs' =
          FirstN(unflagged_of(integrated_recommendations, priority_keywords_enhanced), 10)
    /\ rpc' = "shown"
    /\ UNCHANGED <<rpage, criteria_recs, all_recs, integrated_recommendations>>
    /\ UNCHANGED <<gridVars, aqiVars, areaVars,
                 interpVars, synthVars, datasetVars, polytestVars, prepareVars, coordVars, parallelVars, topoVars>>

\* ---- page 12
\* lines 971-973
RecsCollectIntegrated ==
    /\ rpage = "integrated" /\ rpc = "collect"
    /\ all_recs' = extend_all(criteria_recs, CriteriaOrder(rpage), 1)
    /\ rpc' = "display"
    /\ UNCHANGED <<rpage, criteria_recs, integrated_recommendations,
                   priority_recs, other_recs>>
    /\ UNCHANGED <<gridVars, aqiVars, areaVars,
                 interpVars, synthVars, datasetVars, polytestVars, prepareVars, coordVars, parallelVars, topoVars>>

\* lines 975-984: for rec in set(all_recommendations)
RecsClassifyIntegrated ==
    /\ rpage = "integrated" /\ rpc = "display"
    /\ \E order \in OrdersOf(SeqRange(all_recs)) :
         /\ priority_recs' = flagged_of(order, priority_keywords_integrated)
         /\ other_recs' = unflagged_of(order, priority_keywords_integrated)
    /\ rpc' = "shown"
    /\ UNCHANGED <<rpage, criteria_recs, all_recs, integrated_recommendations>>
    /\ UNCHANGED <<gridVars, aqiVars, areaVars,
                 interpVars, synthVars, datasetVars, polytestVars, prepareVars, coordVars, parallelVars, topoVars>>

NextRecs ==
    \/ RecsIntegrateEnhanced \/ RecsDisplayEnhanced
    \/ RecsCollectIntegrated \/ RecsClassifyIntegrated

-----------------------------------------------------------------------------
(* The data-preparation scripts and the files of data_solution/            *)
(* (prepare_enhanced_data.py, prepare_solution_data_fast.py,               *)
(* prepare_infrastructure_data.py)                                         *)
(* A file is the set of its columns and the set of those of its columns    *)
(* that hold text; its rows are left out.                                  *)

Absent == [present |-> FALSE, columns |-> {}, text |-> {}]
Written(columns, text) == [present |-> TRUE, columns |-> columns, text |-> text]

EnhancedFiles == {"topography", "infrastructure", "population", "economic"}

\* prepare_enhanced_data.py lines 367-381 and 437-451
topography_downloaded ==
    Written({"lat", "lon", "grid_i", "grid_j", "elevation_meters", "slope_degrees",
             "slope_percent", "slope_suitability_score", "terrain_category",
             "development_suitability", "construction_difficulty", "erosion_risk",
             "drainage_quality"},
            {"terrain_category", "development_suitability",
             "construction_difficulty", "erosion_risk", "drainage_quality"})
\* prepare_enhanced_data.py lines 541-554
population_downloaded ==
    Written({"lat", "lon", "grid_i", "grid_j", "population_density",
             "density_category", "development_pressure",
             "development_suitability_score", "infrastructure_demand",
             "services_need", "growth_potential", "planning_priority"},
            {"density_category", "development_pressure", "infrastructure_demand",
             "services_need", "growth_potential", "planning_priority"})
\* prepare_enhanced_data.py lines 634-647
economic_downloaded ==
    Written({"lat", "lon", "grid_i", "grid_j", "normalized_light_intensity",
             "economic_activity_score", "business_density_estimate",
             "employment_density_estimate", "economic_category",
             "business_potential", "investment_attractiveness",
             "commercial_viability"},
            {"economic_category", "business_potential",
             "investment_attractiveness", "commercial_viability"})
\* prepare_infrastructure_data.py lines 335-353
infrastructure_downloaded ==
    Written({"lat", "lon", "grid_i", "grid_j", "total_accessibility_score",
             "healthcare_score", "education_score", "transportation_score",
             "commercial_score", "utilities_score", "emergency_score",
             "recreation_score", "accessibility_category", "service_level",
             "development_readiness", "infrastructure_gaps",
             "priority_improvements"},
            {"accessibility_category", "service_level", "development_readiness",
             "infrastructure_gaps", "priority_improvements"})
\* prepare_solution_data_fast.py lines 71-81
topography_generated ==
    Written({"lat", "lon", "elevation", "slope_percentage",
             "development_suitability", "terrain_category", "grid_i", "grid_j",
             "timestamp"},
            {"terrain_category", "timestamp"})
\* prepare_solution_data_fast.py lines 176-189
infrastructure_generated ==
    Written({"lat", "lon", "road_accessibility", "healthcare_accessibility",
             "education_accessibility", "infrastructure_score", "nearest_road_km",
             "nearest_hospital_km", "nearest_school_km", "grid_i", "grid_j",
             "timestamp"},
            {"timestamp"})
\* prepare_solution_data_fast.py lines 239-249
population_generated ==
    Written({"lat", "lon", "population_density", "development_suitability_score",
             "distance_to_center_km", "urban_category", "grid_i", "grid_j",
             "timestamp"},
            {"urban_category", "timestamp"})
\* prepare_solution_data_fast.py lines 296-305
economic_generated ==
    Written({"lat", "lon", "normalized_light_intensity", "economic_activity_score",
             "commercial_potential", "grid_i", "grid_j", "timestamp"},
            {"commercial_potential", "timestamp"})

\* The functions main() of a script calls that write one of the four files,
\* in the order of the calls.
StepsOf(script) ==
    CASE script = "prepare_enhanced_data" ->
            <<"download_topography_data", "download_population_data",
              "download_economic_activity_data">>
      [] script = "prepare_solution_data_fast" ->
            <<"generate_synthetic_topography", "generate_enhanced_infrastructure",
              "generate_enhanced_population", "generate_enhanced_economic_activity">>
      [] script = "prepare_infrastructure_data" ->
            <<"download_infrastructure_data">>
Scripts ==
    {"prepare_enhanced_data", "prepare_solution_data_fast",
     "prepare_infrastructure_data"}

MaxRuns == 4        \* runs of a script

\* python <script>.py: main() up to its first call that writes a file
RunScript ==
    /\ running = "none"
    /\ runs < MaxRuns
    /\ running' \in Scripts
    /\ step' = 1
    /\ runs' = runs + 1
    /\ UNCHANGED files
    /\ UNCHANGED <<gridVars, aqiVars, areaVars,
                 interpVars, synthVars, datasetVars, polytestVars, recsVars, coordVars, parallelVars, topoVars>>

\* The call at hand writes its file; main() goes on to the next call or
\* returns.
Write(script, function, file, content) ==
    /\ running = script
    /\ StepsOf(script)[step] = function
    /\ files' = [files EXCEPT ![file] = content]
    /\ IF step < Len(StepsOf(script))
       THEN step' = step + 1 /\ running' = running
       ELSE step' = 0 /\ running' = "none"
    /\ UNCHANGED runs
    /\ UNCHANGED <<gridVars, aqiVars, areaVars,
                 interpVars, synthVars, datasetVars, polytestVars, recsVars, coordVars, parallelVars, topoVars>>

\* prepare_enhanced_data.py lines 286-455
DownloadTopographyData ==
    Write("prepare_enhanced_data", "download_topography_data",
          "topography", topography_downloaded)
\* prepare_enhanced_data.py lines 457-560
DownloadPopulationData ==
    Write("prepare_enhanced_data", "download_population_data",
          "population", population_downloaded)
\* prepare_enhanced_data.py lines 562-653
DownloadEconomicActivityData ==
    Write("prepare_enhanced_data", "download_economic_activity_data",
          "economic", economic_downloaded)
\* prepare_solution_data_fast.py lines 45-88
GenerateSyntheticTopography ==
    Write("prepare_solution_data_fast", "generate_synthetic_topography",
          "topography", topography_generated)
\* prepare_solution_data_fast.py lines 132-195
GenerateEnhancedInfrastructure ==
    Write("prepare_solution_data_fast", "generate_enhanced_infrastructure",
          "infrastructure", infrastructure_generated)
\* prepare_solution_data_fast.py lines 210-255
GenerateEnhancedPopulation ==
    Write("prepare_solution_data_fast", "generate_enhanced_population",
          "population", population_generated)
\* prepare_solution_data_fast.py lines 270-311
GenerateEnhancedEconomicActivity ==
    Write("prepare_solution_data_fast", "generate_enhanced_economic_activity",
          "economic", economic_generated)
\* prepare_infrastructure_data.py lines 85-374
DownloadInfrastructureData ==
    Write("prepare_infrastructure_data", "download_infrastructure_data",
          "infrastructure", infrastructure_downloaded)

NextPrepare ==
    \/ RunScript
    \/ DownloadTopographyData \/ DownloadPopulationData
    \/ DownloadEconomicActivityData
    \/ GenerateSyntheticTopography \/ GenerateEnhancedInfrastructure
    \/ GenerateEnhancedPopulation \/ GenerateEnhancedEconomicActivity
    \/ DownloadInfrastructureData

-----------------------------------------------------------------------------
(* The centre/radius grid generator: generate_coordinate_grid              *)
(* (pages/8_Topography_Analysis.py lines 95-110), in units of 0.001 degree *)

\* SULAIMANI_CENTER = [35.5608, 45.4347] (line 38), to 0.001 degree
CENTER_LAT == 35561
CENTER_LON == 45435

\* np.arange(start, stop, stride), stride > 0: ceil((stop - start) / stride)
\* values from start on, none when stop <= start
arange(start, stop, stride) ==
    LET n == IF stop <= start THEN 0 ELSE ((stop - start) + stride - 1) \div stride
    IN [i \in 1 .. n |-> start + (i - 1) * stride]

\* The radius and the resolution of a call; lines 81-85 offer 0.1, 0.15 and
\* 0.25 degree and 0.005, 0.01 and 0.02 degree.
Radii == {-10, 0, 5, 10, 20}
Resolutions == {5, 10}

\* lines 100-104
CoordArange ==
    /\ cgpc = "arange"
    /\ coord_lats' = arange(CENTER_LAT - radius, CENTER_LAT + radius + resolution,
                            resolution)
    /\ coord_lons' = arange(CENTER_LON - radius, CENTER_LON + radius + resolution,
                            resolution)
    /\ coordinates' = <<>>
    /\ cgpc' = "loop"
    /\ UNCHANGED <<radius, resolution>>
    /\ UNCHANGED <<gridVars, aqiVars, areaVars,
                 interpVars, synthVars, datasetVars, polytestVars, recsVars, prepareVars, parallelVars, topoVars>>

\* lines 105-107: one iteration of the inner loop
CoordAppend ==
    /\ cgpc = "loop"
    /\ Len(coordinates) < Len(coord_lats) * Len(coord_lons)
    /\ LET n == Len(coordinates)
           i == (n \div Len(coord_lons)) + 1
           j == (n % Len(coord_lons)) + 1
       IN coordinates' = Append(coordinates, <<coord_lats[i], coord_lons[j]>>)
    /\ UNCHANGED <<cgpc, radius, resolution, coord_lats, coord_lons>>
    /\ UNCHANGED <<gridVars, aqiVars, areaVars,
                 interpVars, synthVars, datasetVars, polytestVars, recsVars, prepareVars, parallelVars, topoVars>>

\* lines 109-110
CoordReturn ==
    /\ cgpc = "loop"
    /\ Len(coordinates) = Len(coord_lats) * Len(coord_lons)
    /\ cgpc' = "returned"
    /\ UNCHANGED <<radius, resolution, coord_lats, coord_lons, coordinates>>
    /\ UNCHANGED <<gridVars, aqiVars, areaVars,
                 interpVars, synthVars, datasetVars, polytestVars, recsVars, prepareVars, parallelVars, topoVars>>

NextCoordinateGrid ==
    \/ CoordArange \/ CoordAppend \/ CoordReturn

-----------------------------------------------------------------------------
(* The per-criterion steps of analyze_enhanced_area (page 13 lines         *)
(* 240-628) run as unsynchronised parallel tasks: every task executes the  *)
(* statements of its criterion in their order, the tasks interleave        *)
(* between statements.                                                     *)

\* The order of the criteria in the function body (lines 244, 315, 390,
\* 450, 516, 572).
SequentialOrder ==
    <<"air_quality", "heat_greenspace", "topography", "infrastructure",
      "population", "economic_activity">>

\* The outcome of the analysis of criterion c on page 13.
outcome_enhanced(c, d, poly) ==
    CASE c = "air_quality"       -> air_quality_enhanced(d, poly)
      [] c = "heat_greenspace"   -> heat_greenspace_enhanced(d, poly)
      [] c = "topography"        -> topography_enhanced(d, poly)
      [] c = "infrastructure"    -> infrastructure_enhanced(d, poly)
      [] c = "population"        -> population_enhanced(d, poly)
      [] c = "economic_activity" -> economic_activity_enhanced(d, poly)

\* The polygon of the tasks and their data: every dataset absent or with
\* rows in the area, at most MaxWithPoints criteria with contained points.
MaxWithPoints == 2
TaskPolygon == build_polygon_enhanced(LatLonList)
TaskData ==
    {d \in CriteriaData :
        /\ d.air_quality    \in {None, AirTable("in"), AirTable("high")}
        /\ d.temperature    \in {None, TempTable("in")}
        /\ d.vegetation     \in {None, VegTable("in")}
        /\ d.topography     \in {None, ScoreTable("development_suitability", "in")}
        /\ d.infrastructure \in {None, ScoreTable("infrastructure_score", "in")}
        /\ d.population     \in {None, ScoreTable("development_suitability_score", "in")}
        /\ d.economic       \in {None, ScoreTable("economic_activity_score", "in")}
        /\ Cardinality({c \in Criteria : outcome_enhanced(c, d, TaskPolygon).has})
              <= MaxWithPoints}

\* `valid_scores.append(score)` (line 308): list.append is one atomic step
\* (the variant in which an append replaces the list)
append_score_overwriting(scores, score) == <<score>>
append_score(scores, score) == Append(scores, score)

\* lines 244-308 (and the like of the other criteria): the task of criterion
\* c computes its outcome, stores it in its entry of results and appends the
\* score to valid_scores; without contained points it does nothing more.
TaskScore(c) ==
    /\ ppc = "tasks" /\ task_pc[c] = "score"
    /\ LET o == outcome_enhanced(c, par_data, TaskPolygon)
       IN  IF o.has
           THEN /\ par_results' = [par_results EXCEPT !.criteria[c] =
                       [score |-> o.score, status |-> o.status,
                        details |-> << <<"points_analyzed", o.points>> >>]]
                /\ par_valid_scores' = append_score(par_valid_scores, o.score)
                /\ task_pc' = [task_pc EXCEPT ![c] = "load"]
           ELSE /\ task_pc' = [task_pc EXCEPT ![c] = "done"]
                /\ UNCHANGED <<par_results, par_valid_scores>>
    /\ UNCHANGED <<ppc, par_data, par_total_points, par_loaded>>
    /\ UNCHANGED <<gridVars, aqiVars, areaVars,
                 interpVars, synthVars, datasetVars, polytestVars, recsVars, prepareVars, coordVars, topoVars>>

\* line 309, `total_points += len(points_in_area)`: the read of total_points
TaskLoad(c) ==
    /\ ppc = "tasks" /\ task_pc[c] = "load"
    /\ par_loaded' = [par_loaded EXCEPT ![c] = par_total_points]
    /\ task_pc' = [task_pc EXCEPT ![c] = "store"]
    /\ UNCHANGED <<ppc, par_data, par_results, par_valid_scores, par_total_points>>
    /\ UNCHANGED <<gridVars, aqiVars, areaVars,
                 interpVars, synthVars, datasetVars, polytestVars, recsVars, prepareVars, coordVars, topoVars>>

\* line 309: the addition and the write of total_points
TaskStore(c) ==
    /\ ppc = "tasks" /\ task_pc[c] = "store"
    /\ par_total_points' =
           par_loaded[c] + outcome_enhanced(c, par_data, TaskPolygon).points
    /\ task_pc' = [task_pc EXCEPT ![c] = "done"]
    /\ UNCHANGED <<ppc, par_data, par_results, par_valid_scores, par_loaded>>
    /\ UNCHANGED <<gridVars, aqiVars, areaVars,
                 interpVars, synthVars, datasetVars, polytestVars, recsVars, prepareVars, coordVars, topoVars>>

\* lines 627-631, after every task has ended
TaskOverall ==
    /\ ppc = "tasks" /\ \A c \in Criteria : task_pc[c] = "done"
    /\ par_results' =
         LET counted == [par_results EXCEPT !.analysis_points = par_total_points]
         IN  IF par_valid_scores # <<>>
             THEN [counted EXCEPT !.overall_score = overall_of(par_valid_scores),
                                  !.overall_status =
                                      overall_status_of(overall_of(par_valid_scores))]
             ELSE counted
    /\ ppc' = "done"
    /\ UNCHANGED <<task_pc, par_data, par_valid_scores, par_total_points, par_loaded>>
    /\ UNCHANGED <<gridVars, aqiVars, areaVars,
                 interpVars, synthVars, datasetVars, polytestVars, recsVars, prepareVars, coordVars, topoVars>>

NextParallel ==
    \/ \E c \in Criteria : TaskScore(c)
    \/ \E c \in Criteria : TaskLoad(c)
    \/ \E c \in Criteria : TaskStore(c)
    \/ TaskOverall

-----------------------------------------------------------------------------
(* The rows of the topography table: download_topography_data              *)
(* (prepare_enhanced_data.py lines 286-455)                                *)

\* The grid of create_enhanced_grid, cut to TopoRows x TopoCols points; a
\* point is named by (grid_i, grid_j), in the order of the DataFrame.
TopoRows == 2
TopoCols == 3
TopoGrid ==
    [k \in 1 .. TopoRows * TopoCols |->
        [grid_i |-> (k - 1) \div TopoCols, grid_j |-> (k - 1) % TopoCols]]

\* `len(topography_data) < len(grid) * 0.5`
insufficient(rows, grid) == 2 * Len(rows) < Len(grid)

\* lines 309-381: the elevation service answers for the next grid point and
\* its row is appended
TopoAnswered ==
    /\ topo_pc = "api" /\ topo_k <= Len(TopoGrid)
    /\ topography_data' = Append(topography_data,
           [grid_i |-> TopoGrid[topo_k].grid_i, grid_j |-> TopoGrid[topo_k].grid_j,
            origin |-> "api"])
    /\ topo_k' = topo_k + 1
    /\ UNCHANGED <<topo_pc, topo_file>>
    /\ UNCHANGED <<gridVars, aqiVars, areaVars, interpVars, synthVars,
                   datasetVars, polytestVars, recsVars, prepareVars, coordVars,
                   parallelVars>>

\* lines 317-322 and 385-391: a status other than 200, an answer without an
\* elevation, or an exception; nothing is appended
TopoUnanswered ==
    /\ topo_pc = "api" /\ topo_k <= Len(TopoGrid)
    /\ topo_k' = topo_k + 1
    /\ UNCHANGED <<topo_pc, topography_data, topo_file>>
    /\ UNCHANGED <<gridVars, aqiVars, areaVars, interpVars, synthVars,
                   datasetVars, polytestVars, recsVars, prepareVars, coordVars,
                   parallelVars>>

\* lines 396-451: with fewer rows than half of the grid, a synthetic row of
\* every grid point is appended to the rows collected so far
TopoFallback ==
    /\ topo_pc = "api" /\ topo_k > Len(TopoGrid)
    /\ topography_data' =
         IF insufficient(topography_data, TopoGrid)
         THEN topography_data \o
              [k \in DOMAIN TopoGrid |->
                  [grid_i |-> TopoGrid[k].grid_i, grid_j |-> TopoGrid[k].grid_j,
                   origin |-> "synthetic"]]
         ELSE topography_data
    /\ topo_pc' = "save"
    /\ UNCHANGED <<topo_k, topo_file>>
    /\ UNCHANGED <<gridVars, aqiVars, areaVars, interpVars, synthVars,
                   datasetVars, polytestVars, recsVars, prepareVars, coordVars,
                   parallelVars>>

\* lines 453-457: the rows are written to enhanced_topography_detailed.csv
TopoSave ==
    /\ topo_pc = "save"
    /\ topo_file' = topography_data
    /\ topo_pc' = "done"
    /\ UNCHANGED <<topo_k, topography_data>>
    /\ UNCHANGED <<gridVars, aqiVars, areaVars, interpVars, synthVars,
                   datasetVars, polytestVars, recsVars, prepareVars, coordVars,
                   parallelVars>>

NextTopography ==
    \/ TopoAnswered \/ TopoUnanswered \/ TopoFallback \/ TopoSave

-----------------------------------------------------------------------------
(* Specifications                                                          *)

\* The state before the first step of each program; the variables of the
\* two programs that do not run keep their idle values.
InitGrid ==
    /\ generator \in {"consistent", "enhanced"}
    /\ gpc = first_step(generator) /\ bounds = unset
    /\ lats = <<>> /\ lons = <<>> /\ lat_grid = unset /\ lon_grid = unset
    /\ grid_coords = [lat |-> <<>>, lon |-> <<>>]
    /\ grid_calls = 0 /\ first_grid = [lat |-> <<>>, lon |-> <<>>]
    /\ impl = "idle" /\ aqi_input = unset /\ noise = 0 /\ aqi_data = <<>>
    /\ page = "idle" /\ polygon_coords = None /\ data = NoData /\ pc = "idle"
    /\ polygon = <<>> /\ test_points = -1 /\ alt_test_points = -1
    /\ results = unset /\ valid_scores = <<>> /\ total_points = 0 /\ ret = "pending"
    /\ ipc = "idle" /\ source_data = <<>> /\ target_points = <<>>
    /\ valid_data = <<>> /\ interpolated_linear = <<>>
    /\ interpolated_nearest = <<>> /\ interp_result = <<>>
    /\ spc = "idle" /\ pollutant_name = "" /\ target_grid = <<>>
    /\ synth_dates = <<>> /\ date_i = 0 /\ base_values = <<>>
    /\ interpolated_data = <<>> /\ synth_calls = 0 /\ first_result = <<>>
    /\ dspc = "idle" /\ dataset_dates = <<>> /\ all_datasets = <<>> /\ combined_data = <<>>
    /\ tpc = "idle" /\ test_polygon = <<>> /\ test_rows = <<>> /\ row_k = 0
    /\ points_in_polygon = 0 /\ points_in_buffered = 0
    /\ rpage = "idle" /\ criteria_recs = <<>> /\ rpc = "idle" /\ all_recs = <<>>
    /\ integrated_recommendations = <<>> /\ priority_recs = <<>> /\ other_recs = <<>>
    /\ running = "idle" /\ step = 0 /\ runs = 0 /\ files = <<>>
    /\ cgpc = "idle" /\ radius = 0 /\ resolution = 0
    /\ coord_lats = <<>> /\ coord_lons = <<>> /\ coordinates = <<>>
    /\ ppc = "idle" /\ task_pc = <<>> /\ par_data = <<>> /\ par_results = <<>>
    /\ par_valid_scores = <<>> /\ par_total_points = 0 /\ par_loaded = <<>>
    /\ topo_pc = "idle" /\ topo_k = 0 /\ topography_data = <<>> /\ topo_file = <<>>

InitAqi ==
    /\ generator = "idle" /\ gpc = "idle" /\ bounds = unset
    /\ lats = <<>> /\ lons = <<>> /\ lat_grid = unset /\ lon_grid = unset
    /\ grid_coords = [lat |-> <<>>, lon |-> <<>>]
    /\ grid_calls = 0 /\ first_grid = [lat |-> <<>>, lon |-> <<>>]
    /\ impl \in {"grid", "15year"}
    /\ aqi_input = unset /\ noise = 0 /\ aqi_data = <<>>
    /\ page = "idle" /\ polygon_coords = None /\ data = NoData /\ pc = "idle"
    /\ polygon = <<>> /\ test_points = -1 /\ alt_test_points = -1
    /\ results = unset /\ valid_scores = <<>> /\ total_points = 0 /\ ret = "pending"
    /\ ipc = "idle" /\ source_data = <<>> /\ target_points = <<>>
    /\ valid_data = <<>> /\ interpolated_linear = <<>>
    /\ interpolated_nearest = <<>> /\ interp_result = <<>>
    /\ spc = "idle" /\ pollutant_name = "" /\ target_grid = <<>>
    /\ synth_dates = <<>> /\ date_i = 0 /\ base_values = <<>>
    /\ interpolated_data = <<>> /\ synth_calls = 0 /\ first_result = <<>>
    /\ dspc = "idle" /\ dataset_dates = <<>> /\ all_datasets = <<>> /\ combined_data = <<>>
    /\ tpc = "idle" /\ test_polygon = <<>> /\ test_rows = <<>> /\ row_k = 0
    /\ points_in_polygon = 0 /\ points_in_buffered = 0
    /\ rpage = "idle" /\ criteria_recs = <<>> /\ rpc = "idle" /\ all_recs = <<>>
    /\ integrated_recommendations = <<>> /\ priority_recs = <<>> /\ other_recs = <<>>
    /\ running = "idle" /\ step = 0 /\ runs = 0 /\ files = <<>>
    /\ cgpc = "idle" /\ radius = 0 /\ resolution = 0
    /\ coord_lats = <<>> /\ coord_lons = <<>> /\ coordinates = <<>>
    /\ ppc = "idle" /\ task_pc = <<>> /\ par_data = <<>> /\ par_results = <<>>
    /\ par_valid_scores = <<>> /\ par_total_points = 0 /\ par_loaded = <<>>
    /\ topo_pc = "idle" /\ topo_k = 0 /\ topography_data = <<>> /\ topo_file = <<>>

InitArea ==
    /\ generator = "idle" /\ gpc = "idle" /\ bounds = unset
    /\ lats = <<>> /\ lons = <<>> /\ lat_grid = unset /\ lon_grid = unset
    /\ grid_coords = [lat |-> <<>>, lon |-> <<>>]
    /\ grid_calls = 0 /\ first_grid = [lat |-> <<>>, lon |-> <<>>]
    /\ impl = "idle" /\ aqi_input = unset /\ noise = 0 /\ aqi_data = <<>>
    /\ page \in Pages
    /\ \/ polygon_coords = LatLonList /\ data \in CriteriaData
       \/ polygon_coords \in PolygonInputs /\ data \in OrientationData
    /\ pc = "check"
    /\ polygon = <<>> /\ test_points = -1 /\ alt_test_points = -1
    /\ results = unset /\ valid_scores = <<>> /\ total_points = 0 /\ ret = "pending"
    /\ ipc = "idle" /\ source_data = <<>> /\ target_points = <<>>
    /\ valid_data = <<>> /\ interpolated_linear = <<>>
    /\ interpolated_nearest = <<>> /\ interp_result = <<>>
    /\ spc = "idle" /\ pollutant_name = "" /\ target_grid = <<>>
    /\ synth_dates = <<>> /\ date_i = 0 /\ base_values = <<>>
    /\ interpolated_data = <<>> /\ synth_calls = 0 /\ first_result = <<>>
    /\ dspc = "idle" /\ dataset_dates = <<>> /\ all_datasets = <<>> /\ combined_data = <<>>
    /\ tpc = "idle" /\ test_polygon = <<>> /\ test_rows = <<>> /\ row_k = 0
    /\ points_in_polygon = 0 /\ points_in_buffered = 0
    /\ rpage = "idle" /\ criteria_recs = <<>> /\ rpc = "idle" /\ all_recs = <<>>
    /\ integrated_recommendations = <<>> /\ priority_recs = <<>> /\ other_recs = <<>>
    /\ running = "idle" /\ step = 0 /\ runs = 0 /\ files = <<>>
    /\ cgpc = "idle" /\ radius = 0 /\ resolution = 0
    /\ coord_lats = <<>> /\ coord_lons = <<>> /\ coordinates = <<>>
    /\ ppc = "idle" /\ task_pc = <<>> /\ par_data = <<>> /\ par_results = <<>>
    /\ par_valid_scores = <<>> /\ par_total_points = 0 /\ par_loaded = <<>>
    /\ topo_pc = "idle" /\ topo_k = 0 /\ topography_data = <<>> /\ topo_file = <<>>

InitInterp ==
    /\ generator = "idle" /\ gpc = "idle" /\ bounds = unset
    /\ lats = <<>> /\ lons = <<>> /\ lat_grid = unset /\ lon_grid = unset
    /\ grid_coords = [lat |-> <<>>, lon |-> <<>>]
    /\ grid_calls = 0 /\ first_grid = [lat |-> <<>>, lon |-> <<>>]
    /\ impl = "idle" /\ aqi_input = unset /\ noise = 0 /\ aqi_data = <<>>
    /\ page = "idle" /\ polygon_coords = None /\ data = NoData /\ pc = "idle"
    /\ polygon = <<>> /\ test_points = -1 /\ alt_test_points = -1
    /\ results = unset /\ valid_scores = <<>> /\ total_points = 0 /\ ret = "pending"
    /\ ipc = "length"
    /\ source_data \in SourceTables /\ target_points \in TargetGrids
    /\ valid_data = <<>> /\ interpolated_linear = <<>>
    /\ interpolated_nearest = <<>> /\ interp_result = <<>>
    /\ spc = "idle" /\ pollutant_name = "" /\ target_grid = <<>>
    /\ synth_dates = <<>> /\ date_i = 0 /\ base_values = <<>>
    /\ interpolated_data = <<>> /\ synth_calls = 0 /\ first_result = <<>>
    /\ dspc = "idle" /\ dataset_dates = <<>> /\ all_datasets = <<>> /\ combined_data = <<>>
    /\ tpc = "idle" /\ test_polygon = <<>> /\ test_rows = <<>> /\ row_k = 0
    /\ points_in_polygon = 0 /\ points_in_buffered = 0
    /\ rpage = "idle" /\ criteria_recs = <<>> /\ rpc = "idle" /\ all_recs = <<>>
    /\ integrated_recommendations = <<>> /\ priority_recs = <<>> /\ other_recs = <<>>
    /\ running = "idle" /\ step = 0 /\ runs = 0 /\ files = <<>>
    /\ cgpc = "idle" /\ radius = 0 /\ resolution = 0
    /\ coord_lats = <<>> /\ coord_lons = <<>> /\ coordinates = <<>>
    /\ ppc = "idle" /\ task_pc = <<>> /\ par_data = <<>> /\ par_results = <<>>
    /\ par_valid_scores = <<>> /\ par_total_points = 0 /\ par_loaded = <<>>
    /\ topo_pc = "idle" /\ topo_k = 0 /\ topography_data = <<>> /\ topo_file = <<>>

InitSynth ==
    /\ generator = "idle" /\ gpc = "idle" /\ bounds = unset
    /\ lats = <<>> /\ lons = <<>> /\ lat_grid = unset /\ lon_grid = unset
    /\ grid_coords = [lat |-> <<>>, lon |-> <<>>]
    /\ grid_calls = 0 /\ first_grid = [lat |-> <<>>, lon |-> <<>>]
    /\ impl = "idle" /\ aqi_input = unset /\ noise = 0 /\ aqi_data = <<>>
    /\ page = "idle" /\ polygon_coords = None /\ data = NoData /\ pc = "idle"
    /\ polygon = <<>> /\ test_points = -1 /\ alt_test_points = -1
    /\ results = unset /\ valid_scores = <<>> /\ total_points = 0 /\ ret = "pending"
    /\ ipc = "idle" /\ source_data = <<>> /\ target_points = <<>>
    /\ valid_data = <<>> /\ interpolated_linear = <<>>
    /\ interpolated_nearest = <<>> /\ interp_result = <<>>
    /\ spc = "points"
    /\ pollutant_name \in SynthPollutants
    /\ target_grid = SynthGrid(pollutant_name)
    /\ synth_dates \in DateLists
    /\ date_i = 1 /\ base_values = <<>>
    /\ interpolated_data = <<>> /\ synth_calls = 0 /\ first_result = <<>>
    /\ dspc = "idle" /\ dataset_dates = <<>> /\ all_datasets = <<>> /\ combined_data = <<>>
    /\ tpc = "idle" /\ test_polygon = <<>> /\ test_rows = <<>> /\ row_k = 0
    /\ points_in_polygon = 0 /\ points_in_buffered = 0
    /\ rpage = "idle" /\ criteria_recs = <<>> /\ rpc = "idle" /\ all_recs = <<>>
    /\ integrated_recommendations = <<>> /\ priority_recs = <<>> /\ other_recs = <<>>
    /\ running = "idle" /\ step = 0 /\ runs = 0 /\ files = <<>>
    /\ cgpc = "idle" /\ radius = 0 /\ resolution = 0
    /\ coord_lats = <<>> /\ coord_lons = <<>> /\ coordinates = <<>>
    /\ ppc = "idle" /\ task_pc = <<>> /\ par_data = <<>> /\ par_results = <<>>
    /\ par_valid_scores = <<>> /\ par_total_points = 0 /\ par_loaded = <<>>
    /\ topo_pc = "idle" /\ topo_k = 0 /\ topography_data = <<>> /\ topo_file = <<>>

InitDataset ==
    /\ generator = "idle" /\ gpc = "idle" /\ bounds = unset
    /\ lats = <<>> /\ lons = <<>> /\ lat_grid = unset /\ lon_grid = unset
    /\ grid_coords = [lat |-> <<>>, lon |-> <<>>]
    /\ grid_calls = 0 /\ first_grid = [lat |-> <<>>, lon |-> <<>>]
    /\ impl = "idle" /\ aqi_input = unset /\ noise = 0 /\ aqi_data = <<>>
    /\ page = "idle" /\ polygon_coords = None /\ data = NoData /\ pc = "idle"
    /\ polygon = <<>> /\ test_points = -1 /\ alt_test_points = -1
    /\ results = unset /\ valid_scores = <<>> /\ total_points = 0 /\ ret = "pending"
    /\ ipc = "idle" /\ source_data = <<>> /\ target_points = <<>>
    /\ valid_data = <<>> /\ interpolated_linear = <<>>
    /\ interpolated_nearest = <<>> /\ interp_result = <<>>
    /\ spc = "idle" /\ pollutant_name = "" /\ target_grid = <<>>
    /\ synth_dates = <<>> /\ date_i = 0 /\ base_values = <<>>
    /\ interpolated_data = <<>> /\ synth_calls = 0 /\ first_result = <<>>
    /\ dspc = "pollutants" /\ dataset_dates \in DayLists
    /\ all_datasets = <<>> /\ combined_data = <<>>
    /\ tpc = "idle" /\ test_polygon = <<>> /\ test_rows = <<>> /\ row_k = 0
    /\ points_in_polygon = 0 /\ points_in_buffered = 0
    /\ rpage = "idle" /\ criteria_recs = <<>> /\ rpc = "idle" /\ all_recs = <<>>
    /\ integrated_recommendations = <<>> /\ priority_recs = <<>> /\ other_recs = <<>>
    /\ running = "idle" /\ step = 0 /\ runs = 0 /\ files = <<>>
    /\ cgpc = "idle" /\ radius = 0 /\ resolution = 0
    /\ coord_lats = <<>> /\ coord_lons = <<>> /\ coordinates = <<>>
    /\ ppc = "idle" /\ task_pc = <<>> /\ par_data = <<>> /\ par_results = <<>>
    /\ par_valid_scores = <<>> /\ par_total_points = 0 /\ par_loaded = <<>>
    /\ topo_pc = "idle" /\ topo_k = 0 /\ topography_data = <<>> /\ topo_file = <<>>

InitPolygonTest ==
    /\ generator = "idle" /\ gpc = "idle" /\ bounds = unset
    /\ lats = <<>> /\ lons = <<>> /\ lat_grid = unset /\ lon_grid = unset
    /\ grid_coords = [lat |-> <<>>, lon |-> <<>>]
    /\ grid_calls = 0 /\ first_grid = [lat |-> <<>>, lon |-> <<>>]
    /\ impl = "idle" /\ aqi_input = unset /\ noise = 0 /\ aqi_data = <<>>
    /\ page = "idle" /\ polygon_coords = None /\ data = NoData /\ pc = "idle"
    /\ polygon = <<>> /\ test_points = -1 /\ alt_test_points = -1
    /\ results = unset /\ valid_scores = <<>> /\ total_points = 0 /\ ret = "pending"
    /\ ipc = "idle" /\ source_data = <<>> /\ target_points = <<>>
    /\ valid_data = <<>> /\ interpolated_linear = <<>>
    /\ interpolated_nearest = <<>> /\ interp_result = <<>>
    /\ spc = "idle" /\ pollutant_name = "" /\ target_grid = <<>>
    /\ synth_dates = <<>> /\ date_i = 0 /\ base_values = <<>>
    /\ interpolated_data = <<>> /\ synth_calls = 0 /\ first_result = <<>>
    /\ dspc = "idle" /\ dataset_dates = <<>> /\ all_datasets = <<>> /\ combined_data = <<>>
    /\ tpc = "rows" /\ test_polygon \in TestPolygons
    /\ test_rows \in SeqsUpTo(TestSites, MaxTestRows) /\ row_k = 0
    /\ points_in_polygon = 0 /\ points_in_buffered = 0
    /\ rpage = "idle" /\ criteria_recs = <<>> /\ rpc = "idle" /\ all_recs = <<>>
    /\ integrated_recommendations = <<>> /\ priority_recs = <<>> /\ other_recs = <<>>
    /\ running = "idle" /\ step = 0 /\ runs = 0 /\ files = <<>>
    /\ cgpc = "idle" /\ radius = 0 /\ resolution = 0
    /\ coord_lats = <<>> /\ coord_lons = <<>> /\ coordinates = <<>>
    /\ ppc = "idle" /\ task_pc = <<>> /\ par_data = <<>> /\ par_results = <<>>
    /\ par_valid_scores = <<>> /\ par_total_points = 0 /\ par_loaded = <<>>
    /\ topo_pc = "idle" /\ topo_k = 0 /\ topography_data = <<>> /\ topo_file = <<>>

InitRecs ==
    /\ generator = "idle" /\ gpc = "idle" /\ bounds = unset
    /\ lats = <<>> /\ lons = <<>> /\ lat_grid = unset /\ lon_grid = unset
    /\ grid_coords = [lat |-> <<>>, lon |-> <<>>]
    /\ grid_calls = 0 /\ first_grid = [lat |-> <<>>, lon |-> <<>>]
    /\ impl = "idle" /\ aqi_input = unset /\ noise = 0 /\ aqi_data = <<>>
    /\ page = "idle" /\ polygon_coords = None /\ data = NoData /\ pc = "idle"
    /\ polygon = <<>> /\ test_points = -1 /\ alt_test_points = -1
    /\ results = unset /\ valid_scores = <<>> /\ total_points = 0 /\ ret = "pending"
    /\ ipc = "idle" /\ source_data = <<>> /\ target_points = <<>>
    /\ valid_data = <<>> /\ interpolated_linear = <<>>
    /\ interpolated_nearest = <<>> /\ interp_result = <<>>
    /\ spc = "idle" /\ pollutant_name = "" /\ target_grid = <<>>
    /\ synth_dates = <<>> /\ date_i = 0 /\ base_values = <<>>
    /\ interpolated_data = <<>> /\ synth_calls = 0 /\ first_result = <<>>
    /\ dspc = "idle" /\ dataset_dates = <<>> /\ all_datasets = <<>> /\ combined_data = <<>>
    /\ tpc = "idle" /\ test_polygon = <<>> /\ test_rows = <<>> /\ row_k = 0
    /\ points_in_polygon = 0 /\ points_in_buffered = 0
    /\ rpage \in Pages /\ criteria_recs \in RecLists(rpage) /\ rpc = "collect"
    /\ all_recs = <<>> /\ integrated_recommendations = <<>>
    /\ priority_recs = <<>> /\ other_recs = <<>>
    /\ running = "idle" /\ step = 0 /\ runs = 0 /\ files = <<>>
    /\ cgpc = "idle" /\ radius = 0 /\ resolution = 0
    /\ coord_lats = <<>> /\ coord_lons = <<>> /\ coordinates = <<>>
    /\ ppc = "idle" /\ task_pc = <<>> /\ par_data = <<>> /\ par_results = <<>>
    /\ par_valid_scores = <<>> /\ par_total_points = 0 /\ par_loaded = <<>>
    /\ topo_pc = "idle" /\ topo_k = 0 /\ topography_data = <<>> /\ topo_file = <<>>

InitPrepare ==
    /\ generator = "idle" /\ gpc = "idle" /\ bounds = unset
    /\ lats = <<>> /\ lons = <<>> /\ lat_grid = unset /\ lon_grid = unset
    /\ grid_coords = [lat |-> <<>>, lon |-> <<>>]
    /\ grid_calls = 0 /\ first_grid = [lat |-> <<>>, lon |-> <<>>]
    /\ impl = "idle" /\ aqi_input = unset /\ noise = 0 /\ aqi_data = <<>>
    /\ page = "idle" /\ polygon_coords = None /\ data = NoData /\ pc = "idle"
    /\ polygon = <<>> /\ test_points = -1 /\ alt_test_points = -1
    /\ results = unset /\ valid_scores = <<>> /\ total_points = 0 /\ ret = "pending"
    /\ ipc = "idle" /\ source_data = <<>> /\ target_points = <<>>
    /\ valid_data = <<>> /\ interpolated_linear = <<>>
    /\ interpolated_nearest = <<>> /\ interp_result = <<>>
    /\ spc = "idle" /\ pollutant_name = "" /\ target_grid = <<>>
    /\ synth_dates = <<>> /\ date_i = 0 /\ base_values = <<>>
    /\ interpolated_data = <<>> /\ synth_calls = 0 /\ first_result = <<>>
    /\ dspc = "idle" /\ dataset_dates = <<>> /\ all_datasets = <<>> /\ combined_data = <<>>
    /\ tpc = "idle" /\ test_polygon = <<>> /\ test_rows = <<>> /\ row_k = 0
    /\ points_in_polygon = 0 /\ points_in_buffered = 0
    /\ rpage = "idle" /\ criteria_recs = <<>> /\ rpc = "idle" /\ all_recs = <<>>
    /\ integrated_recommendations = <<>> /\ priority_recs = <<>> /\ other_recs = <<>>
    /\ running = "none" /\ step = 0 /\ runs = 0
    /\ files = [f \in EnhancedFiles |-> Absent]
    /\ cgpc = "idle" /\ radius = 0 /\ resolution = 0
    /\ coord_lats = <<>> /\ coord_lons = <<>> /\ coordinates = <<>>
    /\ ppc = "idle" /\ task_pc = <<>> /\ par_data = <<>> /\ par_results = <<>>
    /\ par_valid_scores = <<>> /\ par_total_points = 0 /\ par_loaded = <<>>
    /\ topo_pc = "idle" /\ topo_k = 0 /\ topography_data = <<>> /\ topo_file = <<>>

InitCoordinateGrid ==
    /\ generator = "idle" /\ gpc = "idle" /\ bounds = unset
    /\ lats = <<>> /\ lons = <<>> /\ lat_grid = unset /\ lon_grid = unset
    /\ grid_coords = [lat |-> <<>>, lon |-> <<>>]
    /\ grid_calls = 0 /\ first_grid = [lat |-> <<>>, lon |-> <<>>]
    /\ impl = "idle" /\ aqi_input = unset /\ noise = 0 /\ aqi_data = <<>>
    /\ page = "idle" /\ polygon_coords = None /\ data = NoData /\ pc = "idle"
    /\ polygon = <<>> /\ test_points = -1 /\ alt_test_points = -1
    /\ results = unset /\ valid_scores = <<>> /\ total_points = 0 /\ ret = "pending"
    /\ ipc = "idle" /\ source_data = <<>> /\ target_points = <<>>
    /\ valid_data = <<>> /\ interpolated_linear = <<>>
    /\ interpolated_nearest = <<>> /\ interp_result = <<>>
    /\ spc = "idle" /\ pollutant_name = "" /\ target_grid = <<>>
    /\ synth_dates = <<>> /\ date_i = 0 /\ base_values = <<>>
    /\ interpolated_data = <<>> /\ synth_calls = 0 /\ first_result = <<>>
    /\ dspc = "idle" /\ dataset_dates = <<>> /\ all_datasets = <<>> /\ combined_data = <<>>
    /\ tpc = "idle" /\ test_polygon = <<>> /\ test_rows = <<>> /\ row_k = 0
    /\ points_in_polygon = 0 /\ points_in_buffered = 0
    /\ rpage = "idle" /\ criteria_recs = <<>> /\ rpc = "idle" /\ all_recs = <<>>
    /\ integrated_recommendations = <<>> /\ priority_recs = <<>> /\ other_recs = <<>>
    /\ running = "idle" /\ step = 0 /\ runs = 0 /\ files = <<>>
    /\ cgpc = "arange" /\ radius \in Radii /\ resolution \in Resolutions
    /\ coord_lats = <<>> /\ coord_lons = <<>> /\ coordinates = <<>>
    /\ ppc = "idle" /\ task_pc = <<>> /\ par_data = <<>> /\ par_results = <<>>
    /\ par_valid_scores = <<>> /\ par_total_points = 0 /\ par_loaded = <<>>
    /\ topo_pc = "idle" /\ topo_k = 0 /\ topography_data = <<>> /\ topo_file = <<>>

InitParallel ==
    /\ generator = "idle" /\ gpc = "idle" /\ bounds = unset
    /\ lats = <<>> /\ lons = <<>> /\ lat_grid = unset /\ lon_grid = unset
    /\ grid_coords = [lat |-> <<>>, lon |-> <<>>]
    /\ grid_calls = 0 /\ first_grid = [lat |-> <<>>, lon |-> <<>>]
    /\ impl = "idle" /\ aqi_input = unset /\ noise = 0 /\ aqi_data = <<>>
    /\ page = "idle" /\ polygon_coords = None /\ data = NoData /\ pc = "idle"
    /\ polygon = <<>> /\ test_points = -1 /\ alt_test_points = -1
    /\ results = unset /\ valid_scores = <<>> /\ total_points = 0 /\ ret = "pending"
    /\ ipc = "idle" /\ source_data = <<>> /\ target_points = <<>>
    /\ valid_data = <<>> /\ interpolated_linear = <<>>
    /\ interpolated_nearest = <<>> /\ interp_result = <<>>
    /\ spc = "idle" /\ pollutant_name = "" /\ target_grid = <<>>
    /\ synth_dates = <<>> /\ date_i = 0 /\ base_values = <<>>
    /\ interpolated_data = <<>> /\ synth_calls = 0 /\ first_result = <<>>
    /\ dspc = "idle" /\ dataset_dates = <<>> /\ all_datasets = <<>> /\ combined_data = <<>>
    /\ tpc = "idle" /\ test_polygon = <<>> /\ test_rows = <<>> /\ row_k = 0
    /\ points_in_polygon = 0 /\ points_in_buffered = 0
    /\ rpage = "idle" /\ criteria_recs = <<>> /\ rpc = "idle" /\ all_recs = <<>>
    /\ integrated_recommendations = <<>> /\ priority_recs = <<>> /\ other_recs = <<>>
    /\ running = "idle" /\ step = 0 /\ runs = 0 /\ files = <<>>
    /\ cgpc = "idle" /\ radius = 0 /\ resolution = 0
    /\ coord_lats = <<>> /\ coord_lons = <<>> /\ coordinates = <<>>
    /\ ppc = "tasks" /\ task_pc = [c \in Criteria |-> "score"]
    /\ par_data \in TaskData /\ par_results = initial_results
    /\ par_valid_scores = <<>> /\ par_total_points = 0
    /\ par_loaded = [c \in Criteria |-> 0]
    /\ topo_pc = "idle" /\ topo_k = 0 /\ topography_data = <<>> /\ topo_file = <<>>

InitTopography ==
    /\ generator = "idle" /\ gpc = "idle" /\ bounds = unset
    /\ lats = <<>> /\ lons = <<>> /\ lat_grid = unset /\ lon_grid = unset
    /\ grid_coords = [lat |-> <<>>, lon |-> <<>>]
    /\ grid_calls = 0 /\ first_grid = [lat |-> <<>>, lon |-> <<>>]
    /\ impl = "idle" /\ aqi_input = unset /\ noise = 0 /\ aqi_data = <<>>
    /\ page = "idle" /\ polygon_coords = None /\ data = NoData /\ pc = "idle"
    /\ polygon = <<>> /\ test_points = -1 /\ alt_test_points = -1
    /\ results = unset /\ valid_scores = <<>> /\ total_points = 0 /\ ret = "pending"
    /\ ipc = "idle" /\ source_data = <<>> /\ target_points = <<>>
    /\ valid_data = <<>> /\ interpolated_linear = <<>>
    /\ interpolated_nearest = <<>> /\ interp_result = <<>>
    /\ spc = "idle" /\ pollutant_name = "" /\ target_grid = <<>>
    /\ synth_dates = <<>> /\ date_i = 0 /\ base_values = <<>>
    /\ interpolated_data = <<>> /\ synth_calls = 0 /\ first_result = <<>>
    /\ dspc = "idle" /\ dataset_dates = <<>> /\ all_datasets = <<>> /\ combined_data = <<>>
    /\ tpc = "idle" /\ test_polygon = <<>> /\ test_rows = <<>> /\ row_k = 0
    /\ points_in_polygon = 0 /\ points_in_buffered = 0
    /\ rpage = "idle" /\ criteria_recs = <<>> /\ rpc = "idle" /\ all_recs = <<>>
    /\ integrated_recommendations = <<>> /\ priority_recs = <<>> /\ other_recs = <<>>
    /\ running = "idle" /\ step = 0 /\ runs = 0 /\ files = <<>>
    /\ cgpc = "idle" /\ radius = 0 /\ resolution = 0
    /\ coord_lats = <<>> /\ coord_lons = <<>> /\ coordinates = <<>>
    /\ ppc = "idle" /\ task_pc = <<>> /\ par_data = <<>> /\ par_results = <<>>
    /\ par_valid_scores = <<>> /\ par_total_points = 0 /\ par_loaded = <<>>
    /\ topo_pc = "api" /\ topo_k = 1 /\ topography_data = <<>> /\ topo_file = <<>>

SpecGrid == InitGrid /\ [][NextGrid]_vars
SpecAqi  == InitAqi /\ [][NextAqi]_vars
SpecArea == InitArea /\ [][NextArea]_vars
SpecInterp == InitInterp /\ [][NextInterp]_vars
SpecSynth == InitSynth /\ [][NextSynth]_vars
SpecDataset == InitDataset /\ [][NextDataset]_vars
SpecPolygonTest == InitPolygonTest /\ [][NextPolygonTest]_vars
SpecRecs == InitRecs /\ [][NextRecs]_vars
SpecPrepare == InitPrepare /\ [][NextPrepare]_vars
SpecCoordinateGrid == InitCoordinateGrid /\ [][NextCoordinateGrid]_vars
SpecParallel == InitParallel /\ [][NextParallel]_vars
SpecTopography == InitTopography /\ [][NextTopography]_vars

\* One run of any of the programs.
Init == InitGrid \/ InitAqi \/ InitArea \/ InitInterp \/ InitSynth
            \/ InitDataset
            \/ InitPolygonTest
            \/ InitRecs
            \/ InitPrepare
            \/ InitCoordinateGrid
            \/ InitParallel
            \/ InitTopography
Next == NextGrid \/ NextAqi \/ NextArea \/ NextInterp \/ NextSynth
            \/ NextDataset
            \/ NextPolygonTest
            \/ NextRecs
            \/ NextPrepare
            \/ NextCoordinateGrid
            \/ NextParallel
            \/ NextTopography
Spec == Init /\ [][Next]_vars

-----------------------------------------------------------------------------
(* Properties of the composite air quality index                           *)

\* The record appended by the last step, computed from aqi_input.
LastRecord == aqi_data[Len(aqi_data)]

\* The pollutants present in a row of combined_df / in a pollutant_values dict.
PresentGrid(row) == {p \in DOMAIN row : ~IsNaN(row[p])}
PresentYear(pv)  == DOMAIN pv \cap DOMAIN guidelines \cap DOMAIN weights

\* The sum of f[p] over the pollutants p of P.
RECURSIVE RSumOver(_, _)
RSumOver(P, f) ==
    IF P = {} THEN RInt(0)
    ELSE LET p == CHOOSE x \in P : TRUE
         IN  RAdd(f[p], RSumOver(P \ {p}, f))

\* The composite of the pollutants of P alone: the sum of weight x normalized
\* score over P divided by the sum of the weights over P.
Renormalized(P, w, score) ==
    RDiv(RSumOver(P, [p \in P |-> RMul(RInt(w[p]), score[p])]),
         RSumOver(P, [p \in P |-> RInt(w[p])]))

GridExpected ==
    LET P == PresentGrid(aqi_input)
    IN  Renormalized(P, WEIGHTS, [p \in P |-> risk_score(p, aqi_input[p])])
YearExpected ==
    LET P == PresentYear(aqi_input)
    IN  Renormalized(P, weights, [p \in P |-> component_aqi(p, aqi_input[p])])

Clamp(x) == PyMax(RInt(0), PyMin(RInt(100), x))

C6_UndefinedWhenNonePresent ==
    aqi_data # <<>> =>
        /\ (impl = "grid" /\ PresentGrid(aqi_input) = {})
               => IsNaN(LastRecord.aqi_score)
        /\ (impl = "15year" /\ PresentYear(aqi_input) = {})
               => IsNaN(LastRecord.aqi_score)

\* The categories of the quality scale.
ScaleCategories ==
    {"Excellent", "Good", "Moderate", "Poor", "Very Poor", "Extremely Poor"}

\* C7: the record written for a point with no pollutant present carries no
\* category of the Excellent..Extremely Poor scale.
C7_UndefinedHasNoCategory ==
    (aqi_data # <<>> /\ impl = "grid" /\ PresentGrid(aqi_input) = {})
        => LastRecord.aqi_category \notin ScaleCategories

-----------------------------------------------------------------------------
(* Properties of the measurement grid                                      *)

\* create_consistent_measurement_grid has returned.
ConsistentDone == generator = "consistent" /\ gpc = "done"

\* The row of grid_coords that carries grid_id g.
RowOfId(g) ==
    LET k == CHOOSE x \in DOMAIN grid_coords.grid_id : grid_coords.grid_id[x] = g
    IN  [lat |-> grid_coords.lat[k], lon |-> grid_coords.lon[k]]

C9_Grid40x40 ==
    ConsistentDone =>
        /\ Len(grid_coords.lat) = 1600 /\ Len(grid_coords.lon) = 1600
        /\ Len(grid_coords.grid_id) = 1600
        /\ \A g \in 0 .. 1599 :
               Cardinality({k \in DOMAIN grid_coords.grid_id :
                               grid_coords.grid_id[k] = g}) = 1
        /\ Cardinality({<<grid_coords.lat[k], grid_coords.lon[k]>> :
                           k \in DOMAIN grid_coords.lat}) = 1600
        /\ RowOfId(0).lat = 3540 * (n_points_lat - 1)
        /\ RowOfId(0).lon = 4525 * (n_points_lon - 1)

\* The finished grid, with all its rows numbered.
C9_Witness ==
    /\ ConsistentDone
    /\ Len(grid_coords.grid_id) = n_points_lat * n_points_lon
    /\ \E k \in DOMAIN grid_coords.grid_id : grid_coords.grid_id[k] = 0

-----------------------------------------------------------------------------
(* Properties of the area query: orientation of the polygon                *)

\* The number of rows of the whole table t that the buffered polygon holds.
WholeCount(t, poly) == CountSlice(t, poly, 0, TableLen(t))

\* The polygon under the orientation a page assumes first.
AssumedPolygon(pg, pcoords) ==
    IF pg = "enhanced" THEN build_polygon_enhanced(pcoords)
    ELSE build_polygon_integrated(pcoords)

\* The polygon a page analyses for the arguments pcoords and d: the result
\* of the steps BuildPolygon, Probe and AltProbe.
FinalPolygon(pg, pcoords, d) ==
    LET t       == d.topography
        built   == AssumedPolygon(pg, pcoords)
        alt     == IF pg = "enhanced" THEN alt_polygon_enhanced(pcoords)
                   ELSE alt_polygon_integrated(pcoords)
        n_built == IF pg = "enhanced" THEN probe_enhanced(t, built)
                   ELSE probe_integrated(t, built)
        n_alt   == IF pg = "enhanced" THEN probe_enhanced(t, alt)
                   ELSE probe_integrated(t, alt)
    IN  IF built = Raised \/ t = None THEN built
        ELSE IF TableLen(t) = 0 \/ n_built > 0 \/ alt = Raised THEN built
        ELSE adopt(built, alt, n_built, n_alt)

\* C1: for a flat ring of pairs and a topography table of which one
\* orientation of the ring holds at least one row (over the whole table, with
\* the buffer) and the other holds none, the query analyses the polygon of
\* the orientation that holds rows.
C1_OrientationAdopted ==
    (pc = "done" /\ polygon_coords \in FlatInputs /\ data.topography # None) =>
        LET t == data.topography
            D == DirectPolygon(polygon_coords)
            S == SwappedPolygon(polygon_coords)
        IN  /\ (WholeCount(t, D) > 0 /\ WholeCount(t, S) = 0) => polygon = D
            /\ (WholeCount(t, S) > 0 /\ WholeCount(t, D) = 0) => polygon = S

C10_NestedLikeFlat ==
    (pc = "done" /\ polygon_coords = NestedOne) =>
        /\ ret = "results"
        /\ polygon = FinalPolygon(page, LonLatList, data)

-----------------------------------------------------------------------------
(* Properties of the area query: the result                                *)

\* The datasets a criterion reads.
DatasetsOf(c) ==
    IF c = "heat_greenspace" THEN {"temperature", "vegetation"}
    ELSE IF c = "economic_activity" THEN {"economic"}
    ELSE {c}

\* The datasets of which only the rows of the latest date are analysed.
Dated == {"air_quality", "temperature", "vegetation"}

\* The table t has a row the buffered polygon contains.
HasContained(t, poly) == t # None /\ ContainedRows(t, poly) # <<>>

\* The dataset k has such a row among the rows its criterion analyses.
HasAnalysed(k, t, poly) ==
    t # None /\ ContainedRows(IF k \in Dated THEN LatestRows(t) ELSE t, poly) # <<>>

RECURSIVE SetToSeq(_)
SetToSeq(S) ==
    IF S = {} THEN <<>>
    ELSE LET x == CHOOSE y \in S : TRUE IN <<x>> \o SetToSeq(S \ {x})

\* The scores results holds for the criteria of C.
ScoresOf(C) == [i \in DOMAIN SetToSeq(C) |-> results.criteria[SetToSeq(C)[i]].score]

\* What the analysis of criterion c finds in the data d.
OutcomeOf(pg, c, d, poly) ==
    CASE c = "air_quality" ->
             IF pg = "enhanced" THEN air_quality_enhanced(d, poly)
             ELSE air_quality_integrated(d, poly)
      [] c = "heat_greenspace" ->
             IF pg = "enhanced" THEN heat_greenspace_enhanced(d, poly)
             ELSE heat_greenspace_integrated(d, poly)
      [] c = "topography" ->
             IF pg = "enhanced" THEN topography_enhanced(d, poly)
             ELSE topography_integrated(d, poly)
      [] c = "infrastructure" ->
             IF pg = "enhanced" THEN infrastructure_enhanced(d, poly)
             ELSE infrastructure_integrated(d, poly)
      [] c = "population" ->
             IF pg = "enhanced" THEN population_enhanced(d, poly)
             ELSE population_integrated(d, poly)
      [] c = "economic_activity" ->
             IF pg = "enhanced" THEN economic_activity_enhanced(d, poly)
             ELSE economic_activity_integrated(d, poly)

\* The mean of the scores found in the data d (0 if none is found).
MeanScoreFor(pg, d, poly) ==
    LET found == SetToSeq({c \in Criteria : OutcomeOf(pg, c, d, poly).has})
    IN  IF found = <<>> THEN RInt(0)
        ELSE Mean([i \in DOMAIN found |-> OutcomeOf(pg, found[i], d, poly).score])

\* The data without the datasets of criterion c.
DataWithout(c) == [k \in Datasets |-> IF k \in DatasetsOf(c) THEN None ELSE data[k]]

\* The criteria a dataset of which has a contained row.
ClaimedContributing ==
    {c \in Criteria : \E k \in DatasetsOf(c) : HasContained(data[k], polygon)}

\* The criteria every dataset of which has a contained row among the rows
\* analysed.
Contributing ==
    {c \in Criteria : \A k \in DatasetsOf(c) : HasAnalysed(k, data[k], polygon)}

NoContainedPoint == \A k \in Datasets : ~HasContained(data[k], polygon)

\* C4: for a ring of 3 or more vertices of which no dataset has a contained
\* row, the query returns a result, every criterion has status 'No Data'
\* and overall_status is 'Insufficient Data'.
C4_InsufficientData ==
    (pc = "done" /\ polygon_coords \in FlatInputs /\ NoContainedPoint) =>
        /\ ret = "results"
        /\ \A c \in Criteria : results.criteria[c].status = "No Data"
        /\ results.overall_status = "Insufficient Data"

\* A finished query whose seven datasets are all loaded and all lie outside
\* the drawn area.
C4_Witness ==
    /\ pc = "done" /\ ret = "results"
    /\ polygon_coords \in FlatInputs
    /\ \A k \in Datasets : data[k] # None /\ TableLen(data[k]) > 0
    /\ NoContainedPoint

-----------------------------------------------------------------------------
(* Properties of the area query: the first guess of the orientation        *)

\* The first coordinate of the first pair of a flat ring.
FirstCoordinate(pcoords) == pcoords.val[1].val[1].val

\* The latitude band of the deployment (35..37 degrees, the band the format
\* detection of page 12 tests) and the longitude band (the longitudes of
\* get_sulaimani_bounds, given in 0.01 degree), in 0.001 degree.
InLatitudeBand(x)  == LatBandLow < x /\ x < LatBandHigh
InLongitudeBand(x) ==
    /\ 10 * get_sulaimani_bounds[1][2] <= x
    /\ x <= 10 * get_sulaimani_bounds[2][2]

\* C11: once the polygon of a flat ring of pairs has been built, it is the
\* latitude-first reading of the ring (the pairs swapped to (lon, lat))
\* exactly when the first coordinate of the first pair lies in the latitude
\* band and outside the longitude band; for a first coordinate in the
\* longitude band it is the longitude-first reading, the pairs not swapped.
C11_MagnitudeHeuristic ==
    (pc = "probe" /\ polygon_coords \in FlatInputs) =>
        LET x == FirstCoordinate(polygon_coords)
        IN  /\ (polygon = SwappedPolygon(polygon_coords))
                <=> (InLatitudeBand(x) /\ ~InLongitudeBand(x))
            /\ InLongitudeBand(x) => polygon = DirectPolygon(polygon_coords)

-----------------------------------------------------------------------------
(* Properties of the area query: a polygon of fewer than 3 vertices        *)

\* A polygon argument of fewer than 3 vertices (None counts as none).
FewerThanThree(pcoords) == pcoords = None \/ PyLen(pcoords) < 3

\* Nothing of the query after the test of its arguments has run: no polygon
\* built, no probe, no results, no dataset filtered.
NothingAnalysed ==
    /\ polygon = <<>> /\ test_points = -1 /\ alt_test_points = -1
    /\ results = unset /\ valid_scores = <<>> /\ total_points = 0

-----------------------------------------------------------------------------
(* Properties of the area query: the range of the scores                   *)

InScoreRange(x) == RGe(x, RInt(0)) /\ RLe(x, RInt(100))

\* C13: in a returned result every per-criterion score and the overall score
\* lie in [0, 100] (the tables hold an AQI score >= 0, an NDVI in
\* -0.10 .. 0.90, any temperature, and pre-computed scores in 0 .. 100).
C13_ScoresInRange ==
    (pc = "done" /\ ret = "results") =>
        /\ \A c \in Criteria : InScoreRange(results.criteria[c].score)
        /\ InScoreRange(results.overall_score)

-----------------------------------------------------------------------------
(* Properties of the normalization of one pollutant                        *)
(* The index of an input with one pollutant present is that pollutant's    *)
(* normalized score: weight * score / weight.                              *)

\* A row of combined_df, and a pollutant_values dict, with pollutant p alone.
SingleRow(p, v) == [q \in Range(WEIGHTS_keys) |-> IF q = p THEN RInt(v) ELSE NaN]
SingleDict(p, v) == [q \in {p} |-> v]

\* The values 0, g/2, g, 3g/2, ... of a pollutant of guideline g.
Levels(g) == {(l * g) \div 2 : l \in 0 .. MaxLevel}

\* min(100, 100 * v / g) for integers v >= 0 and g > 0.
SeverityOf(v, g) == IF v >= g THEN RInt(100) ELSE Rat(100 * v, g)

\* What C14 says of a score that came from the value v of a pollutant of
\* guideline g, where lower(w) is the score of a value w.
SeverityHolds(score, v, g, lower(_)) ==
    /\ score = SeverityOf(v, g)
    /\ v = g => score = RInt(100)
    /\ v = 0 => score = RInt(0)
    /\ RGe(score, RInt(0)) /\ RLe(score, RInt(100))
    /\ \A w \in Levels(g) : w <= v => RLe(lower(w), score)

\* C14: for a pollutant other than ozone with a value >= 0, the risk score
\* is min(100, 100 * value / guideline): 100 at the guideline, 0 at 0,
\* within [0, 100] and not below the score of any smaller value; in both
\* implementations (in calculate_composite_aqi seen at a noise draw of 0).
C14_SeverityNormalization ==
    aqi_data # <<>> =>
        /\ impl = "grid" =>
             \A p \in Range(WEIGHTS_keys) \ {"O3"} :
                 PresentGrid(aqi_input) = {p} =>
                     LET g == GUIDELINES[p]
                         lower(w) == final_aqi_of(SingleRow(p, w))
                     IN  SeverityHolds(LastRecord.aqi_score, aqi_input[p].n, g, lower)
        /\ (impl = "15year" /\ noise = 0) =>
             \A p \in Range(pollutant_keys) \ {"O3"} :
                 DOMAIN aqi_input = {p} =>
                     LET g == guidelines[p]
                         lower(w) == calculate_composite_aqi(SingleDict(p, w), 0)
                     IN  SeverityHolds(LastRecord.aqi_score, aqi_input[p], g, lower)

\* Nitrogen dioxide alone, above its guideline: the score is capped at 100.
C14_Witness ==
    /\ impl = "grid" /\ aqi_data # <<>>
    /\ PresentGrid(aqi_input) = {"NO2"}
    /\ aqi_input["NO2"].n > GUIDELINES["NO2"]
    /\ LastRecord.aqi_score = RInt(100)

-----------------------------------------------------------------------------
(* Properties of the normalization of ozone                                *)

\* 100 - min(100, 100 * v / g) for integers v >= 0 and g > 0.
OzoneRiskOf(v, g) == IF v >= g THEN RInt(0) ELSE RSub(RInt(100), Rat(100 * v, g))

OzoneHolds(score, v, g) ==
    /\ score = OzoneRiskOf(v, g)
    /\ RGe(score, RInt(0)) /\ RLe(score, RInt(100))
    /\ v >= g => score = RInt(0)
    /\ v = 0 => score = RInt(100)

\* C15: the ozone component of the index is 100 - min(100, 100 * value /
\* guideline): within [0, 100] for a value >= 0, 0 at and above the guideline
\* and 100 at 0, the same in both implementations (in
\* calculate_composite_aqi seen at a noise draw of 0).
C15_OzoneNormalization ==
    aqi_data # <<>> =>
        /\ (impl = "grid" /\ PresentGrid(aqi_input) = {"O3"}) =>
             OzoneHolds(LastRecord.aqi_score, aqi_input["O3"].n, GUIDELINES["O3"])
        /\ (impl = "15year" /\ noise = 0 /\ DOMAIN aqi_input = {"O3"}) =>
             OzoneHolds(LastRecord.aqi_score, aqi_input["O3"], guidelines["O3"])

-----------------------------------------------------------------------------
(* Properties of the category of a composite score                         *)

\* The place of a category on the scale, Excellent first.
ScaleOrder ==
    <<"Excellent", "Good", "Moderate", "Poor", "Very Poor", "Extremely Poor">>
RankOf(category) == CHOOSE i \in DOMAIN ScaleOrder : ScaleOrder[i] = category

\* The category the implementation in use gives the score s.
CategoryGiven(s) ==
    IF impl = "grid" THEN categorize(s)[1] ELSE get_aqi_category(s)[1]

\* C16: the category of a defined composite score s is Excellent iff
\* s <= 20, Good iff 20 < s <= 40, Moderate iff 40 < s <= 60, Poor iff
\* 60 < s <= 80, Very Poor iff 80 < s <= 100 and Extremely Poor iff s > 100,
\* and it is not below the category of any smaller score 0, 10, ..., 100.
C16_CategoryThresholds ==
    (aqi_data # <<>> /\ ~IsNaN(LastRecord.aqi_score)) =>
        LET s == LastRecord.aqi_score
            c == LastRecord.aqi_category
        IN  /\ c = "Excellent" <=> RLe(s, RInt(20))
            /\ c = "Good"      <=> (RGt(s, RInt(20)) /\ RLe(s, RInt(40)))
            /\ c = "Moderate"  <=> (RGt(s, RInt(40)) /\ RLe(s, RInt(60)))
            /\ c = "Poor"      <=> (RGt(s, RInt(60)) /\ RLe(s, RInt(80)))
            /\ c = "Very Poor" <=> (RGt(s, RInt(80)) /\ RLe(s, RInt(100)))
            /\ c = "Extremely Poor" <=> RGt(s, RInt(100))
            /\ \A t \in 0 .. 10 :
                 RLe(RInt(10 * t), s) => RankOf(CategoryGiven(RInt(10 * t))) <= RankOf(c)

\* A score on a threshold: 40 is still Good.
C16_Witness ==
    /\ aqi_data # <<>>
    /\ LastRecord.aqi_score = RInt(40)
    /\ LastRecord.aqi_category = "Good"

-----------------------------------------------------------------------------
(* Properties of the scattered-data interpolation                          *)

\* C17: for a non-empty list of samples, the array interpolate_to_grid
\* returns holds a number, never NaN, at every grid point (fewer than 3
\* samples, samples with NaN fields and a failure of the interpolation
\* included).
C17_NeverNaN ==
    (ipc = "done" /\ source_data # <<>>) =>
        /\ Len(interp_result) = Len(target_points)
        /\ \A i \in DOMAIN interp_result : ~IsNaN(interp_result[i])

-----------------------------------------------------------------------------
(* Properties of the field synthesis                                       *)

\* 0.1 x background of the pollutant being synthesized.
FloorLevel == RMul(background_of(pollutant_name), Rat(1, 10))

\* C18 as stated: every value written is at least 0.1 x background of its
\* pollutant, whatever the noise draw, the grid point and the date.
C18_FloorAfterSeason ==
    \A i \in DOMAIN interpolated_data :
        RGe(interpolated_data[i].value, FloorLevel)

\* C18 as amended: the values of a date are at least 0.1 x background before
\* the seasonal multiplier is applied, and every value written is at least
\* 0.1 x background x the multiplier of its date, so at least
\* 0.07 x background.
C18_FloorBeforeSeason ==
    /\ spc = "season" =>
         \A i \in DOMAIN base_values : RGe(base_values[i], FloorLevel)
    /\ \A i \in DOMAIN interpolated_data :
         /\ RGe(interpolated_data[i].value,
                RMul(FloorLevel, time_variation(interpolated_data[i].date)))
         /\ RGe(interpolated_data[i].value,
                RMul(background_of(pollutant_name), Rat(7, 100)))

\* A written value that the floor and a multiplier of 0.7 have set: below
\* 0.1 x background.
C18_Witness ==
    \E i \in DOMAIN interpolated_data :
        /\ interpolated_data[i].value = RMul(FloorLevel, Rat(7, 10))
        /\ RLt(interpolated_data[i].value, FloorLevel)

\* C19: a call that returns after another call with the same grid, the same
\* pollutant and the same dates returns the rows the first call returned.
C19_Reproducible ==
    (spc = "returned" /\ synth_calls = 1) => interpolated_data = first_result

-----------------------------------------------------------------------------
(* Properties of the grid generators: determinism                          *)

\* The sequence s is the start of the sequence t.
IsPrefix(s, t) == Len(s) <= Len(t) /\ s = SubSeq(t, 1, Len(s))

-----------------------------------------------------------------------------
(* Properties of the multi-pollutant dataset                               *)

\* The grid every pollutant is synthesized on.
DatasetGrid == grid_of(POLLUTANTS[1])

\* The (date, grid_id) keys of a pollutant table.
KeysOf(table) == {<<table[i].date, table[i].grid_id>> : i \in DOMAIN table}

\* The rows of a table that carry a date, in the order of the table.
RecordsOf(table, date) ==
    LET OfDate(row) == row.date = date
    IN SelectSeq(table, OfDate)

\* The rows are the grid points, one row each, in the order of the grid.
InGridOrder(rows) ==
    /\ Len(rows) = Len(DatasetGrid)
    /\ \A i \in DOMAIN rows :
         /\ rows[i].grid_id = DatasetGrid[i].grid_id
         /\ rows[i].lat = DatasetGrid[i].lat
         /\ rows[i].lon = DatasetGrid[i].lon

\* C21: the table of every pollutant holds, for every date of the list, one
\* record per grid point, in grid order, with the grid_id, lat and lon of the
\* point, and no record of another date; so the tables have the same
\* (date, grid_id) keys; every row of the combined table has a value for
\* every pollutant; and the finished combined table has
\* len(grid) x len(dates) rows.
C21_OneRecordPerPoint ==
    /\ \A k \in DOMAIN all_datasets :
         /\ \A d \in DOMAIN dataset_dates :
              InGridOrder(RecordsOf(all_datasets[k], dataset_dates[d]))
         /\ \A i \in DOMAIN all_datasets[k] :
              /\ all_datasets[k][i].pollutant = POLLUTANTS[k]
              /\ \E d \in DOMAIN dataset_dates :
                   all_datasets[k][i].date = dataset_dates[d]
    /\ \A k, l \in DOMAIN all_datasets :
         KeysOf(all_datasets[k]) = KeysOf(all_datasets[l])
    /\ \A r \in DOMAIN combined_data :
         \A k \in DOMAIN POLLUTANTS : ~IsNaN(combined_data[r].values[k])
    /\ dspc = "done" =>
         Len(combined_data) = Len(DatasetGrid) * Len(dataset_dates)

\* The combined table of six pollutant tables is finished, for a list that
\* holds a date twice.
C21_Witness ==
    /\ dspc = "done"
    /\ Len(all_datasets) = Len(POLLUTANTS)
    /\ Len(dataset_dates) > Len(unique(dataset_dates))
    /\ Len(combined_data) = Len(DatasetGrid) * Len(dataset_dates)

-----------------------------------------------------------------------------
(* Properties of the area query: point counts                              *)

\* The number of contained points the score of criterion c is derived from.
PointsBehind(c) == OutcomeOf(page, c, data, polygon).points

RECURSIVE SumOfPoints(_)
SumOfPoints(C) ==
    IF C = {} THEN 0
    ELSE LET c == CHOOSE x \in C : TRUE
         IN PointsBehind(c) + SumOfPoints(C \ {c})

\* C22: in a returned result, every criterion that carries a computed score
\* carries the number of contained points the score is derived from, and
\* the total point count of the result is the sum of these numbers over the
\* criteria that contributed to overall_score, 0 exactly when there is none.
C22_ScoreCarriesCount ==
    (pc = "done" /\ ret = "results") =>
        /\ \A c \in Criteria :
               results.criteria[c].status # "No Data" =>
                   results.criteria[c].details =
                       << <<"points_analyzed", PointsBehind(c)>> >>
        /\ results.analysis_points = SumOfPoints(Contributing)
        /\ results.analysis_points = 0 <=> Contributing = {}

-----------------------------------------------------------------------------
(* Properties of the polygon test: containment monotonicity                *)

MaxBuffer == 2      \* the largest buffer compared, in units of 0.001 degree

\* The rows the loop has gone through.
RowsTested == SubSeq(test_rows, 1, row_k)

\* The number of those rows polygon.buffer(buf) contains.
CountWithin(buf) ==
    Cardinality({i \in DOMAIN RowsTested :
        Contains(test_polygon, buf, <<RowsTested[i].lon, RowsTested[i].lat>>)})

\* C23: for a simple ring and a dataset, the count of points contained under
\* a larger buffer is never smaller than under a smaller one; the count the
\* test reports for the 0.001 degree buffer is never below the count for the
\* polygon itself, and every row the polygon contains the buffered polygon
\* contains.
C23_BufferMonotone ==
    /\ points_in_polygon <= points_in_buffered
    /\ points_in_polygon = CountWithin(0)
    /\ points_in_buffered = CountWithin(BufferSize)
    /\ \A b1, b2 \in 0 .. MaxBuffer :
         b1 <= b2 =>
           /\ CountWithin(b1) <= CountWithin(b2)
           /\ \A i \in DOMAIN RowsTested :
                LET point == <<RowsTested[i].lon, RowsTested[i].lat>>
                IN Contains(test_polygon, b1, point)
                     => Contains(test_polygon, b2, point)

\* The test has reported a dataset of which the polygon contains a row, the
\* 0.001 degree buffer one more, and a larger buffer yet another.
C23_Witness ==
    /\ tpc = "done"
    /\ points_in_polygon >= 1
    /\ points_in_buffered > points_in_polygon
    /\ CountWithin(MaxBuffer) > points_in_buffered

-----------------------------------------------------------------------------
(* Properties of the integrated recommendations                            *)

\* The keywords the specification names.
FixedKeywords == {"urgent", "critical", "required"}

\* No element of the list occurs in it twice.
DuplicateFree(s) == \A i, j \in DOMAIN s : s[i] = s[j] => i = j

\* The recommendation strings of the criteria.
AllRecommendations == UNION {SeqRange(criteria_recs[c]) : c \in Criteria}

\* C24: the priority list and the general list a page arrives at are
\* disjoint, neither holds a string twice, together they hold exactly the
\* recommendation strings of the criteria, a string is in the priority list
\* exactly if it contains one of the keywords urgent, critical and required.
C24_RecommendationPartition ==
    rpc = "shown" =>
        /\ SeqRange(priority_recs) \cap SeqRange(other_recs) = {}
        /\ DuplicateFree(priority_recs) /\ DuplicateFree(other_recs)
        /\ SeqRange(priority_recs) \cup SeqRange(other_recs) = AllRecommendations
        /\ \A rec \in AllRecommendations :
             rec \in SeqRange(priority_recs)
                 <=> KeywordsIn(rec) \cap FixedKeywords # {}

-----------------------------------------------------------------------------
(* Properties of the data-preparation scripts                              *)

\* The file has the columns, and the columns of numeric hold numbers.
HasColumns(file, columns, numeric) ==
    /\ columns \subseteq files[file].columns
    /\ numeric \cap files[file].text = {}

\* C25: whenever no script is running and the four enhanced files are
\* present, topography has elevation, slope_percentage and a numeric
\* development_suitability, infrastructure has infrastructure_score and the
\* three accessibility columns, population has
\* development_suitability_score, and economic has economic_activity_score
\* and normalized_light_intensity.
C25_ExpectedColumns ==
    (running = "none" /\ \A f \in EnhancedFiles : files[f].present) =>
        /\ HasColumns("topography",
                      {"elevation", "slope_percentage", "development_suitability"},
                      {"development_suitability"})
        /\ HasColumns("infrastructure",
                      {"infrastructure_score", "road_accessibility",
                       "healthcare_accessibility", "education_accessibility"}, {})
        /\ HasColumns("population", {"development_suitability_score"}, {})
        /\ HasColumns("economic",
                      {"economic_activity_score", "normalized_light_intensity"}, {})

-----------------------------------------------------------------------------
(* Properties of the centre/radius grid generator                          *)

\* C26: for a radius that is zero or negative, the region being empty or
\* inverted, generate_coordinate_grid does not return a grid: it never
\* returns an empty list or a grid of a single row or column.
C26_InvalidBoundsRejected ==
    radius <= 0 => cgpc # "returned"

-----------------------------------------------------------------------------
(* Properties of the area query: the alternate orientation                 *)

\* The polygon a page re-tests when the first probe found nothing.
AlternatePolygon(pg, pcoords) ==
    IF pg = "enhanced" THEN alt_polygon_enhanced(pcoords)
    ELSE alt_polygon_integrated(pcoords)

\* The polygon with the two axes of every vertex exchanged.
AxisSwapped(poly) == [i \in DOMAIN poly |-> <<poly[i][2], poly[i][1]>>]

\* The alternate polygon has been re-tested.
AltTested ==
    /\ pc \notin {"check", "build", "probe", "alt"}
    /\ polygon # Raised
    /\ data.topography # None /\ TableLen(data.topography) > 0
    /\ test_points = 0
    /\ AlternatePolygon(page, polygon_coords) # Raised

\* C27: when the probe found no row under the assumed orientation, the
\* alternate polygon that is re-tested is the assumed polygon with its axes
\* exchanged, never the assumed polygon again, and it replaces the assumed
\* polygon only when it holds strictly more rows, on both pages and in
\* every branch of the format detection.
C27_AlternateIsSwapped ==
    LET alt == AlternatePolygon(page, polygon_coords)
        assumed == AssumedPolygon(page, polygon_coords)
    IN  /\ (pc = "alt" /\ alt # Raised) =>
              /\ alt = AxisSwapped(polygon)
              /\ alt # polygon
        /\ AltTested =>
              polygon = (IF alt_test_points > test_points THEN alt ELSE assumed)

-----------------------------------------------------------------------------
(* Properties of the per-criterion steps run as parallel tasks             *)

\* The criteria with contained points, in the order of the function body.
WithPoints(d) ==
    SelectSeq(SequentialOrder, LAMBDA c : outcome_enhanced(c, d, TaskPolygon).has)

\* valid_scores and total_points of the sequential run on the data d.
SequentialScores(d) ==
    [i \in DOMAIN WithPoints(d) |-> outcome_enhanced(WithPoints(d)[i], d, TaskPolygon).score]
RECURSIVE SumPoints(_, _)
SumPoints(d, cs) ==
    IF cs = <<>> THEN 0
    ELSE outcome_enhanced(Head(cs), d, TaskPolygon).points + SumPoints(d, Tail(cs))
SequentialPoints(d) == SumPoints(d, WithPoints(d))
SequentialOverall(d) ==
    IF WithPoints(d) = <<>> THEN initial_results.overall_score
    ELSE overall_of(SequentialScores(d))

\* C28 as stated: run as unsynchronised parallel tasks, the per-criterion
\* steps end with the overall_score and the total point count of the
\* sequential run, in every interleaving.
C28_ParallelEqualsSequential ==
    ppc = "done" =>
        /\ par_results.overall_score = SequentialOverall(par_data)
        /\ par_results.analysis_points = SequentialPoints(par_data)

\* C28 amended: besides its own entry of results every step appends to the
\* shared list valid_scores and adds to the shared counter total_points.
\* Run as unsynchronised parallel tasks, the steps end with the entries and
\* the overall_score of the sequential run, while the total point count is
\* at most that of the sequential run and, when some criterion had points,
\* at least the count of one of them: additions can be lost.
C28_ParallelScoreOnly ==
    ppc = "done" =>
        LET cs == WithPoints(par_data)
        IN  /\ par_results.overall_score = SequentialOverall(par_data)
            /\ Len(par_valid_scores) = Len(cs)
            /\ \A c \in Criteria :
                 LET o == outcome_enhanced(c, par_data, TaskPolygon)
                 IN  par_results.criteria[c].score =
                         (IF o.has THEN o.score ELSE initial_results.criteria[c].score)
            /\ par_results.analysis_points <= SequentialPoints(par_data)
            /\ cs # <<>> =>
                 \E i \in DOMAIN cs :
                     par_results.analysis_points >=
                         outcome_enhanced(cs[i], par_data, TaskPolygon).points

\* A finished parallel run of two criteria with points in which one addition
\* to total_points was lost.
C28_Witness ==
    /\ ppc = "done"
    /\ Len(WithPoints(par_data)) = 2
    /\ par_results.overall_score = SequentialOverall(par_data)
    /\ par_results.analysis_points < SequentialPoints(par_data)
    /\ par_results.analysis_points > 0

-----------------------------------------------------------------------------
(* Properties of the rows of the topography table                          *)

\* C29: the topography table download_topography_data writes holds at most
\* one record of every grid point (grid_i, grid_j), whatever number of grid
\* points the elevation service answered, also when the synthetic fallback
\* ran after some answers.
C29_OneRecordPerGridPoint ==
    topo_pc = "done" =>
        \A a, b \in DOMAIN topo_file :
            (topo_file[a].grid_i = topo_file[b].grid_i
             /\ topo_file[a].grid_j = topo_file[b].grid_j) => a = b

-----------------------------------------------------------------------------
(* Properties of the display of the results (page 13)                      *)

\* lines 851-852 and 881-882: the criteria shown in the chart and in the
\* detail expanders, `if criterion_data['score'] > 0`
displayed_criteria(res) ==
    {c \in Criteria : PyLt(RInt(0), res.criteria[c].score)}
\* line 932: sum(1 for c in results['criteria'].values() if c['score'] > 0)
criteria_count(res) ==
    Cardinality({c \in Criteria : PyLt(RInt(0), res.criteria[c].score)})

\* The criteria whose score was appended to valid_scores.
Scored == {c \in Criteria : OutcomeOf(page, c, data, polygon).has}

\* C30: every criterion that contributed a score to overall_score is shown
\* in the detailed criteria results of page 13 and counted in 'Criteria
\* Analyzed', also a criterion with contained points whose score is exactly
\* 0: the displayed criteria are the contributing ones.
C30_DisplayedAreContributing ==
    (page = "enhanced" /\ pc = "done" /\ ret = "results") =>
        /\ displayed_criteria(results) = Scored
        /\ criteria_count(results) = Cardinality(Scored)

====
